---------------------------- MODULE Spec2Model ----------------------------
(***************************************************************************)
(* A model of src/src/duco/ducobox.py: the DucoInterface session, the      *)
(* DucoNode device taxonomy, the line protocol codec and the persistence   *)
(* of the network configuration.                                           *)
(*                                                                         *)
(* Text is modelled as a sequence of one-character strings, so that the    *)
(* regular expressions of the codec are computed, not assumed.             *)
(***************************************************************************)
EXTENDS Integers, Sequences, FiniteSets, TLC

(***************************************************************************)
(* Bound of the model: the longest nodes list that is explored.            *)
(***************************************************************************)
MaxNodes == 2

(***************************************************************************)
(* Python's None, and the way an operation ended.                          *)
(***************************************************************************)
None == "None"

-----------------------------------------------------------------------------
(***************************************************************************)
(* Characters and the character classes of Python's re module.             *)
(***************************************************************************)
NL == "\n"

Digit == {"0", "1", "2", "3", "4", "5", "6", "7", "8", "9"}

\* \s : the whitespace the replies can hold ('\r' is replaced by '\n'
\* before any pattern is applied, ducobox.py line 730).
Space == {" ", "\t", NL}

Letter ==
    {"A", "B", "C", "D", "E", "F", "G", "H", "I", "J", "K", "L", "M",
     "N", "O", "P", "Q", "R", "S", "T", "U", "V", "W", "X", "Y", "Z",
     "a", "b", "c", "d", "e", "f", "g", "h", "i", "j", "k", "l", "m",
     "n", "o", "p", "q", "r", "s", "t", "u", "v", "w", "x", "y", "z"}

\* \w
WordChar == Letter \cup Digit \cup {"_"}

\* The value of a decimal digit.
DigitVal(c) ==
    CASE c = "0" -> 0 [] c = "1" -> 1 [] c = "2" -> 2 [] c = "3" -> 3
      [] c = "4" -> 4 [] c = "5" -> 5 [] c = "6" -> 6 [] c = "7" -> 7
      [] c = "8" -> 8 [] c = "9" -> 9

\* int()/float() of a string of digits.
RECURSIVE DigitsToInt(_)
DigitsToInt(s) ==
    IF s = <<>> THEN 0
    ELSE 10 * DigitsToInt(SubSeq(s, 1, Len(s) - 1)) + DigitVal(s[Len(s)])

\* The first position j >= i of s that holds no character of class S
\* (Len(s) + 1 when there is none): where a greedy S* started at i ends.
RECURSIVE SkipWhile(_, _, _)
SkipWhile(s, i, S) ==
    IF i > Len(s) \/ s[i] \notin S THEN i ELSE SkipWhile(s, i + 1, S)

\* Does the literal lit occur in s at position i ?
StartsAt(s, i, lit) ==
    /\ i >= 1
    /\ i + Len(lit) - 1 <= Len(s)
    /\ \A k \in 1..Len(lit) : s[i + k - 1] = lit[k]

\* Python's  lit in s .
Contains(s, lit) == \E i \in 1..(Len(s) + 1) : StartsAt(s, i, lit)

\* Where the line that holds position i ends: '.' matches no line feed.
RECURSIVE EndOfLine(_, _)
EndOfLine(s, i) ==
    IF i > Len(s) \/ s[i] = NL THEN i ELSE EndOfLine(s, i + 1)

\* str.split('\n'): the lines of s from position i on.
RECURSIVE SplitFrom(_, _)
SplitFrom(s, i) ==
    LET e == EndOfLine(s, i)
    IN  IF e > Len(s) THEN <<SubSeq(s, i, Len(s))>>
        ELSE <<SubSeq(s, i, e - 1)>> \o SplitFrom(s, e + 1)

SplitLines(s) == SplitFrom(s, 1)

\* Lines joined by line feeds: how the replies below are written down.
RECURSIVE JoinLines(_)
JoinLines(ls) ==
    IF ls = <<>> THEN <<>>
    ELSE IF Len(ls) = 1 THEN ls[1]
    ELSE ls[1] \o <<NL>> \o JoinLines(Tail(ls))

-----------------------------------------------------------------------------
(***************************************************************************)
(* DucoNode._parse_reply : re.compile(regex).search(reply), then the named *)
(* group of the match, or None.  A result is [found, text].                *)
(***************************************************************************)
NoMatch == [found |-> FALSE, text |-> <<>>]

Matched(t) == [found |-> TRUE, text |-> t]

Min(S) == CHOOSE x \in S : \A y \in S : x <= y

Max(S) == CHOOSE x \in S : \A y \in S : x >= y

\* The maximal run of digits of s that starts at i.
DigitsAt(s, i) == SubSeq(s, i, SkipWhile(s, i, Digit) - 1)

\* The words the patterns and commands are made of.
sArrow == <<"-", "-", ">">>
sActual == <<"A", "c", "t", "u", "a", "l">>
sFiltered == <<"F", "i", "l", "t", "e", "r", "e", "d">>
sBoard == <<"B", "o", "a", "r", "d">>
sBASIC == <<"B", "A", "S", "I", "C">>
sRH == <<"R", "H">>
sTEMP == <<"T", "E", "M", "P">>

\* PARAGET_REGEX = r'-->\s*(?P<value>\d+)', group 'value'.
ParseParaget(reply) ==
    LET D(i) == SkipWhile(reply, i + Len(sArrow), Space)
        C == {i \in 1..Len(reply) :
                /\ StartsAt(reply, i, sArrow)
                /\ D(i) <= Len(reply)
                /\ reply[D(i)] \in Digit}
    IN  IF C = {} THEN NoMatch ELSE Matched(DigitsAt(reply, D(Min(C))))

\* r'<label>\s*\:\s*(?P<g>\d+)', group g: MATCH_SENSOR_INFO_HUMIDITY with
\* label RH and MATCH_SENSOR_INFO_TEMPERATURE with label TEMP.
ParseLabelledNumber(reply, label) ==
    LET A(i) == SkipWhile(reply, i + Len(label), Space)
        D(i) == SkipWhile(reply, A(i) + 1, Space)
        C == {i \in 1..Len(reply) :
                /\ StartsAt(reply, i, label)
                /\ A(i) <= Len(reply)
                /\ reply[A(i)] = ":"
                /\ D(i) <= Len(reply)
                /\ reply[D(i)] \in Digit}
    IN  IF C = {} THEN NoMatch ELSE Matched(DigitsAt(reply, D(Min(C))))

\* MATCH_BOARD_NAME = r'Board\s*:\s*(?P<board>.+)', group 'board'.  The
\* second \s* is greedy and also takes line feeds; when it runs to the end
\* of the reply it gives characters back until '.+' finds one that is no
\* line feed.
ParseBoardName(reply) ==
    LET A(i) == SkipWhile(reply, i + Len(sBoard), Space)
        D(i) == SkipWhile(reply, A(i) + 1, Space)
        Back(i) == {p \in (A(i) + 1)..Len(reply) : reply[p] # NL}
        C == {i \in 1..Len(reply) :
                /\ StartsAt(reply, i, sBoard)
                /\ A(i) <= Len(reply)
                /\ reply[A(i)] = ":"
                /\ \/ D(i) <= Len(reply)
                   \/ Back(i) # {}}
    IN  IF C = {} THEN NoMatch
        ELSE LET i == Min(C)
             IN  IF D(i) <= Len(reply)
                 THEN Matched(SubSeq(reply, D(i), EndOfLine(reply, D(i)) - 1))
                 ELSE Matched(<<reply[Max(Back(i))]>>)

\* The group 'actual' of MATCH_FAN_SPEED instead of the group 'filtered'.
ParseFanSpeedActual(reply) ==
    LET A(i) == SkipWhile(reply, i + Len(sActual), Space)
        Q(p) == SkipWhile(reply, p + Len(sFiltered), Space)
        F(i) == {p \in (A(i) + 1)..EndOfLine(reply, A(i)) :
                    /\ StartsAt(reply, p, sFiltered)
                    /\ Q(p) <= Len(reply)
                    /\ reply[Q(p)] \in Digit}
        C == {i \in 1..Len(reply) :
                /\ StartsAt(reply, i, sActual)
                /\ A(i) <= Len(reply)
                /\ reply[A(i)] \in Digit
                /\ F(i) # {}}
    IN  IF C = {} THEN NoMatch
        ELSE Matched(DigitsAt(reply, A(Min(C))))

\* MATCH_FAN_SPEED = r'Actual\s*(?P<actual>\d+).*Filtered\s*(?P<filtered>\d+)',
\* group 'filtered'.  '.*' is greedy and stays on one line: the match takes
\* the last 'Filtered <digits>' of the line the Actual number is on.
ParseFanSpeed(reply) ==
    LET A(i) == SkipWhile(reply, i + Len(sActual), Space)
        Q(p) == SkipWhile(reply, p + Len(sFiltered), Space)
        F(i) == {p \in (A(i) + 1)..EndOfLine(reply, A(i)) :
                    /\ StartsAt(reply, p, sFiltered)
                    /\ Q(p) <= Len(reply)
                    /\ reply[Q(p)] \in Digit}
        C == {i \in 1..Len(reply) :
                /\ StartsAt(reply, i, sActual)
                /\ A(i) <= Len(reply)
                /\ reply[A(i)] \in Digit
                /\ F(i) # {}}
    IN  IF C = {} THEN NoMatch
        ELSE Matched(DigitsAt(reply, Q(Max(F(Min(C))))))

\* MATCH_NETWORK_COMMAND =
\*   r'^\s*(?P<node>\d+)\s*\|\s*(?P<address>\d+)\s*\|\s*(?P<kind>\w+).*$'
\* searched in one line of the reply: [found, node, address, kind].
ParseNetworkLine(line) ==
    LET n0 == SkipWhile(line, 1, Space)
        n1 == SkipWhile(line, n0, Digit)
        n2 == SkipWhile(line, n1, Space)
        a0 == SkipWhile(line, n2 + 1, Space)
        a1 == SkipWhile(line, a0, Digit)
        a2 == SkipWhile(line, a1, Space)
        k0 == SkipWhile(line, a2 + 1, Space)
        k1 == SkipWhile(line, k0, WordChar)
    IN  IF /\ n1 > n0
           /\ n2 <= Len(line) /\ line[n2] = "|"
           /\ a1 > a0
           /\ a2 <= Len(line) /\ line[a2] = "|"
           /\ k1 > k0
        THEN [found |-> TRUE, node |-> SubSeq(line, n0, n1 - 1),
              address |-> SubSeq(line, a0, a1 - 1),
              kind |-> SubSeq(line, k0, k1 - 1)]
        ELSE [found |-> FALSE, node |-> <<>>, address |-> <<>>, kind |-> <<>>]

-----------------------------------------------------------------------------
(***************************************************************************)
(* The serial line: the texts it answers with.                             *)
(***************************************************************************)
\* No reply within the timeout: readline() returns ''.
NoReply == <<>>

\* The answer to a command the box does not know.
InvalidCommand ==
    <<"i", "n", "v", "a", "l", "i", "d", " ", "c", "o", "m", "m", "a",
      "n", "d">>

\* The header line of a network listing.
NetHeader ==
    <<"N", "o", "d", "e", " ", "|", " ", "A", "d", "d", "r", " ", "|",
      " ", "T", "y", "p", "e">>

\* Lines of a network listing.
NetLineBox ==
    <<" ", " ", "1", " ", "|", " ", "1", " ", "|", " ", "B", "O", "X">>
NetLineUCRH ==
    <<" ", " ", "2", " ", "|", " ", "2", " ", "|", " ", "U", "C", "R",
      "H">>
NetLineUCCO2 ==
    <<" ", " ", "3", " ", "|", " ", "3", " ", "|", " ", "U", "C", "C",
      "O", "2">>
\* A line whose kind is the KIND of no class.
NetLineUnknown ==
    <<" ", " ", "4", " ", "|", " ", "4", " ", "|", " ", "F", "O", "O">>

\* The replies to the network command that are explored: none, a listing
\* of a box and a user control, a listing of the box alone, and a listing
\* of a node of an unknown kind followed by a CO2 control.
NetworkReplies ==
    { NoReply,
      JoinLines(<<NetHeader, NetLineBox, NetLineUCRH>>),
      NetLineBox,
      JoinLines(<<NetLineUnknown, NetHeader, NetLineUCCO2>>) }

\* Replies to boardinfo: a board that is not BASIC, a BASIC one, no board
\* line, no reply.
BoardFocus ==
    <<"B", "o", "o", "t", "S", "W", " ", ":", " ", "1", "\n", "B", "o",
      "a", "r", "d", " ", ":", " ", "F", "O", "C", "U", "S">>
BoardBasic ==
    <<"B", "o", "a", "r", "d", " ", ":", " ", "S", "I", "L", "E", "N",
      "T", " ", "B", "A", "S", "I", "C">>
BoardReplies == {BoardFocus, BoardBasic, InvalidCommand, NoReply}

\* Replies to fanspeed, sensorinfo and nodeparaget.
FanSpeedReply ==
    <<"A", "c", "t", "u", "a", "l", " ", "1", "4", "3", "8", " ", "F",
      "i", "l", "t", "e", "r", "e", "d", " ", "1", "4", "4", "9">>
SensorInfoReply ==
    <<"R", "H", " ", ":", " ", "6", "8", "3", "7", "\n", "T", "E", "M",
      "P", ":", " ", "1", "8", "9">>
SensorInfoTempOnly ==
    <<"T", "E", "M", "P", ":", " ", "1", "8", "9">>
ParagetReply ==
    <<" ", " ", "-", "-", ">", " ", "5", "1", "2">>

\* Every text the serial line answers with.
Replies ==
    {NoReply, InvalidCommand, FanSpeedReply, SensorInfoReply,
     SensorInfoTempOnly, ParagetReply} \cup NetworkReplies \cup BoardReplies

(***************************************************************************)
(* DucoNode._parse_reply(regex, reply, group) for the patterns of the      *)
(* classes.  A search depends on the pattern and the text alone: Searched  *)
(* holds what each pattern finds in each text of the line, and             *)
(* ParseReply reads it there.                                              *)
(***************************************************************************)
Patterns ==
    {"PARAGET_REGEX", "MATCH_FAN_SPEED", "MATCH_BOARD_NAME",
     "MATCH_SENSOR_INFO_HUMIDITY", "MATCH_SENSOR_INFO_TEMPERATURE"}

Search(pattern, reply) ==
    CASE pattern = "PARAGET_REGEX" -> ParseParaget(reply)
      [] pattern = "MATCH_FAN_SPEED" -> ParseFanSpeed(reply)
      [] pattern = "MATCH_BOARD_NAME" -> ParseBoardName(reply)
      [] pattern = "MATCH_SENSOR_INFO_HUMIDITY"
            -> ParseLabelledNumber(reply, sRH)
      [] pattern = "MATCH_SENSOR_INFO_TEMPERATURE"
            -> ParseLabelledNumber(reply, sTEMP)

Searched ==
    [pattern \in Patterns |-> [reply \in Replies |-> Search(pattern, reply)]]

ParseReply(pattern, reply) == Searched[pattern][reply]

\* reply.split('\n') with MATCH_NETWORK_COMMAND searched in every line, for
\* each text of the line: the sequence of what the lines of the text hold.
Listings ==
    [reply \in Replies |->
        [k \in 1..Len(SplitLines(reply)) |->
            ParseNetworkLine(SplitLines(reply)[k])]]

-----------------------------------------------------------------------------
(***************************************************************************)
(* Parameters: names, scaling factors and nodeparaget identifiers.         *)
(***************************************************************************)
CO2_STR == "CO2"
HUMIDITY_STR == "humidity"
TEMPERATURE_STR == "temperature"
FANSPEED_STR == "fanspeed"

CO2_PARAGET_ID == 74
HUMIDITY_PARAGET_ID == 75
TEMPERATURE_PARAGET_ID == 73

HUMIDITY_SCALING == 100
CO2_SCALING == 1
TEMPERATURE_SCALING == 10
FANSPEED_SCALING == 1

\* DucoNodeParameter.scaling, as the subclasses' initializers set it.
Scaling(parameter) ==
    CASE parameter = HUMIDITY_STR -> HUMIDITY_SCALING
      [] parameter = CO2_STR -> CO2_SCALING
      [] parameter = TEMPERATURE_STR -> TEMPERATURE_SCALING
      [] parameter = FANSPEED_STR -> FANSPEED_SCALING

\* DucoNodeParaGetParameter.getter_id (the fan speed parameter has none).
GetterId(parameter) ==
    CASE parameter = HUMIDITY_STR -> HUMIDITY_PARAGET_ID
      [] parameter = CO2_STR -> CO2_PARAGET_ID
      [] parameter = TEMPERATURE_STR -> TEMPERATURE_PARAGET_ID

\* DucoNodeParameter.value: None, or float(value) / scaling kept as the
\* pair <<value, scaling>>.
NoValue == <<>>

\* A set_value that does not divide by the scaling.
ParameterSetRaw(parameter, text) == <<DigitsToInt(text), 1>>

\* DucoNodeParameter.set_value
ParameterSetValue(parameter, text) == <<DigitsToInt(text), Scaling(parameter)>>

(***************************************************************************)
(* The taxonomy: DucoNode.get_subclasses() in the order it yields the      *)
(* classes, each with its KIND (<<>> for the None the mixins inherit).     *)
(***************************************************************************)
Subclasses ==
    << [cls |-> "DucoBox", kind |-> <<"B", "O", "X">>],
       [cls |-> "DucoUserControlHumiditySensor", kind |-> <<"U", "C", "R", "H">>],
       [cls |-> "DucoUserControlCO2Sensor", kind |-> <<"U", "C", "C", "O", "2">>],
       [cls |-> "DucoValveHumiditySensor", kind |-> <<"V", "L", "V", "R", "H">>],
       [cls |-> "DucoValveCO2Sensor", kind |-> <<"V", "L", "V", "C", "O", "2">>],
       [cls |-> "DucoGrille", kind |-> <<"C", "L", "I", "M", "A">>],
       [cls |-> "DucoNodeWithTemperature", kind |-> <<>>],
       [cls |-> "DucoNodeWithHumidity", kind |-> <<>>],
       [cls |-> "DucoNodeWithCO2", kind |-> <<>>],
       [cls |-> "DucoUserControlBattery", kind |-> <<"U", "C", "B", "A", "T">>],
       [cls |-> "DucoUserControl", kind |-> <<"U", "C">>],
       [cls |-> "DucoValve", kind |-> <<"V", "L", "V">>],
       [cls |-> "DucoSwitch", kind |-> <<"S", "W", "I", "T", "C", "H">>] >>

\* The class add_node instantiates: the last subclass whose KIND is kind,
\* DucoNode when there is none.
NodeClass(kind) ==
    LET M == {i \in 1..Len(Subclasses) : Subclasses[i].kind = kind}
    IN  IF M = {} THEN "DucoNode" ELSE Subclasses[Max(M)].cls

\* A taxonomy whose every class holds a temperature and nothing else.
TemperatureOnly(cls) == <<TEMPERATURE_STR>>

\* The keys of self.parameters in the order the initializers of the class
\* insert them (super().__init__ runs first along the MRO).
ClassParameters(cls) ==
    CASE cls = "DucoBox" -> <<FANSPEED_STR>>
      [] cls \in {"DucoUserControlHumiditySensor", "DucoValveHumiditySensor"}
            -> <<TEMPERATURE_STR, HUMIDITY_STR>>
      [] cls \in {"DucoUserControlCO2Sensor", "DucoValveCO2Sensor"}
            -> <<TEMPERATURE_STR, CO2_STR>>
      [] cls = "DucoGrille" -> <<TEMPERATURE_STR>>
      [] OTHER -> <<>>

Range(f) == {f[x] : x \in DOMAIN f}

\* DucoNode.__init__ and the initializers of its subclasses, without the
\* board information of DucoBox (see AddNode).
NewNode(cls, number, address) ==
    [cls |-> cls, number |-> number, address |-> address,
     name |-> "My " \o cls, blacklist |-> FALSE,
     parameters |-> [p \in Range(ClassParameters(cls)) |-> NoValue]]

(***************************************************************************)
(* Commands.                                                               *)
(***************************************************************************)
LIST_NETWORK_COMMAND == <<"n", "e", "t", "w", "o", "r", "k">>
FAN_SPEED_COMMAND == <<"f", "a", "n", "s", "p", "e", "e", "d">>
BOARD_INFO_COMMAND == <<"b", "o", "a", "r", "d", "i", "n", "f", "o">>
SENSOR_INFO_COMMAND == <<"s", "e", "n", "s", "o", "r", "i", "n", "f", "o">>
sNodeparaget == <<"n", "o", "d", "e", "p", "a", "r", "a", "g", "e", "t">>

DigitChar(d) ==
    CASE d = 0 -> "0" [] d = 1 -> "1" [] d = 2 -> "2" [] d = 3 -> "3"
      [] d = 4 -> "4" [] d = 5 -> "5" [] d = 6 -> "6" [] d = 7 -> "7"
      [] d = 8 -> "8" [] d = 9 -> "9"

\* str() of a natural number.
RECURSIVE IntToDigits(_)
IntToDigits(n) ==
    IF n < 10 THEN <<DigitChar(n)>>
    ELSE Append(IntToDigits(n \div 10), DigitChar(n % 10))

\* PARAGET_COMMAND.format(node=number, para=id)
ParagetCommand(number, id) ==
    sNodeparaget \o <<" ">> \o number \o <<" ">> \o IntToDigits(id)

-----------------------------------------------------------------------------
(***************************************************************************)
(* The state of a DucoInterface session and of its surroundings.           *)
(***************************************************************************)
VARIABLES
    serial,     \* self._serial is bound: Serial(port) opened in bind_serial
    database,   \* self._database: None or the sink bound by bind_database
    cfgfile,    \* self.cfgfile is a path (not None)
    nodes,      \* self.nodes: the sequence of devices
    live,       \* self._live
    extended,   \* self._extended
    file,       \* the sections of the network configuration file
    op,         \* the operation called last
    cmds,       \* the execute_command calls of that operation, in order,
                \* each with the position in nodes of the device that made
                \* it (0: the session, or a device not yet in nodes)
    sunk,       \* the store_sample calls that operation made on the bound
                \* sink, each with the position in nodes of the device it
                \* came from
    sampled,    \* the positions in nodes whose sample() it called
    raised,     \* the exception it ended with, or None
    matched,    \* some line of a network reply has matched so far
    trace,      \* what that operation did on the serial line and to the
                \* flags, in order: every write and readline, and every
                \* assignment of self._live and self._extended, each with
                \* the two flags as they were right after it
    returned,   \* the get_node call made last: the number asked for and
                \* the position in nodes of the device returned, 0 for
                \* None
    main        \* ducobox_wrapper: where it is, and its arguments

vars == <<serial, database, cfgfile, nodes, live, extended, file,
          op, cmds, sunk, sampled, raised, matched, trace, returned, main>>

\* The sinks: two InfluxDb objects built from complete configuration
\* files, and one built from an incomplete one (InfluxDb.__init__ then logs
\* a warning and never calls configure, so it has no attribute database).
InfluxA == "InfluxA"
InfluxB == "InfluxB"
InfluxIncomplete == "InfluxIncomplete"
Sinks == {InfluxA, InfluxB, InfluxIncomplete}

(***************************************************************************)
(* What an operation works on while it runs: the session's fields it can   *)
(* change and the trace of what it did.  Replies are the texts the serial  *)
(* line answers with: replies[c][k] answers the k-th command made by the   *)
(* caller c, and the line stays silent where replies holds no text.        *)
(***************************************************************************)
Enter ==
    [nodes |-> nodes, live |-> live, extended |-> extended,
     cmds |-> <<>>, sunk |-> <<>>, sampled |-> <<>>, raised |-> None,
     cur |-> 0, trace |-> <<>>]

\* The session's record of one thing it did, with its flags at that time.
Event(s, ev, text) ==
    [ev |-> ev, text |-> text, live |-> s.live, extended |-> s.extended]

sCR == <<"\r">>

\* The calls execute_command makes on the serial port: '\r' is written and
\* a line read to flush the port, the command is written character by
\* character, then '\r', and the reply is read with readline().
OnTheWire(s, command, reply) ==
    <<Event(s, "write", sCR), Event(s, "flush", <<>>),
      Event(s, "write", command), Event(s, "write", sCR),
      Event(s, "readline", reply)>>

\* An execute_command that writes the command and does not wait for the
\* reply.
ExecuteCommandNoRead(s, command, replies) ==
    IF serial
    THEN [s EXCEPT !.cmds = Append(@, [cmd |-> command, reply |-> <<>>,
                                        sent |-> TRUE, node |-> s.cur]),
                   !.trace = @ \o <<Event(s, "write", sCR),
                                    Event(s, "flush", <<>>),
                                    Event(s, "write", command),
                                    Event(s, "write", sCR)>>]
    ELSE [s EXCEPT !.cmds = Append(@, [cmd |-> command, reply |-> <<>>,
                                        sent |-> FALSE, node |-> s.cur])]

\* What readline() returns for the k-th command of a caller.
ReplyAt(replies, caller, k) ==
    IF caller \in DOMAIN replies
    THEN IF k \in DOMAIN replies[caller] THEN replies[caller][k] ELSE NoReply
    ELSE NoReply

\* DucoInterface.execute_command without the test of self._serial.
ExecuteCommandUnbound(s, command, replies) ==
    LET k == Cardinality({j \in 1..Len(s.cmds) : s.cmds[j].node = s.cur}) + 1
        reply == ReplyAt(replies, s.cur, k)
    IN  [s EXCEPT !.cmds = Append(@, [cmd |-> command, reply |-> reply,
                                       sent |-> TRUE, node |-> s.cur]),
                  !.trace = @ \o OnTheWire(s, command, reply)]

\* DucoInterface.execute_command: with no serial port nothing is written
\* and the reply is ''; otherwise the command is written and one reply read.
ExecuteCommand(s, command, replies) ==
    LET k == Cardinality({j \in 1..Len(s.cmds) : s.cmds[j].node = s.cur}) + 1
        reply == IF serial THEN ReplyAt(replies, s.cur, k) ELSE <<>>
    IN  [s EXCEPT !.cmds = Append(@, [cmd |-> command, reply |-> reply,
                                       sent |-> serial, node |-> s.cur]),
                  !.trace = IF serial
                            THEN @ \o OnTheWire(s, command, reply)
                            ELSE @]

\* The reply execute_command returned last.
LastReply(s) == s.cmds[Len(s.cmds)].reply

\* InfluxDb.store_sample: self.database.write_points(json_data), where an
\* InfluxDBServerError is caught; an InfluxDb without the attribute
\* database raises AttributeError.
SinkStoreSample(s, db, node, measurement, value) ==
    LET s1 == [s EXCEPT !.sunk = Append(@, [db |-> db, at |-> s.cur,
                                             node |-> node.number,
                                             name |-> node.name,
                                             measurement |-> measurement,
                                             value |-> value])]
    IN  IF db = InfluxIncomplete
        THEN [s1 EXCEPT !.raised = "AttributeError"]
        ELSE s1

\* A store_sample that keeps forwarding to the sink bound first.
StoreSampleToFirstSink(s, node, measurement, value) ==
    IF database # None
    THEN SinkStoreSample(s, InfluxA, node, measurement, value)
    ELSE s

\* DucoInterface.store_sample
StoreSample(s, node, measurement, value) ==
    IF database # None
    THEN SinkStoreSample(s, database, node, measurement, value)
    ELSE s

\* A set_value that takes a reply without a value as the value None.
SetValueOrNone(s, i, parameter, parsed) ==
    IF parsed.found /\ parameter \in DOMAIN s.nodes[i].parameters
    THEN LET scaled == ParameterSetValue(parameter, parsed.text)
             s1 == [s EXCEPT !.nodes[i].parameters[parameter] = scaled]
         IN  StoreSample(s1, s1.nodes[i], parameter, scaled)
    ELSE IF parameter \in DOMAIN s.nodes[i].parameters
    THEN [s EXCEPT !.nodes[i].parameters[parameter] = NoValue]
    ELSE s

\* DucoNode.set_value on the device at position i; parsed is what
\* _parse_reply returned.
SetValue(s, i, parameter, parsed) ==
    IF parsed.found /\ parameter \in DOMAIN s.nodes[i].parameters
    THEN LET scaled == ParameterSetValue(parameter, parsed.text)
             s1 == [s EXCEPT !.nodes[i].parameters[parameter] = scaled]
         IN  StoreSample(s1, s1.nodes[i], parameter, scaled)
    ELSE s

\* DucoNode._perform_sample, from the k-th parameter on.
RECURSIVE DefaultPerformSample(_, _, _, _)
DefaultPerformSample(s, i, k, replies) ==
    LET order == ClassParameters(s.nodes[i].cls)
    IN  IF k > Len(order) \/ s.raised # None THEN s
        ELSE LET name == order[k]
                 cmd == ParagetCommand(s.nodes[i].number, GetterId(name))
                 s1 == ExecuteCommand(s, cmd, replies)
                 value == ParseReply("PARAGET_REGEX", LastReply(s1))
             IN  DefaultPerformSample(SetValue(s1, i, name, value), i, k + 1,
                                      replies)

\* DucoBox._perform_sample
BoxPerformSample(s, i, replies) ==
    LET s1 == ExecuteCommand(s, FAN_SPEED_COMMAND, replies)
        speed == ParseReply("MATCH_FAN_SPEED", LastReply(s1))
    IN  SetValue(s1, i, FANSPEED_STR, speed)

\* DucoUserControlHumiditySensor._perform_sample
UserControlHumidityPerformSample(s, i, replies) ==
    IF s.extended
    THEN DefaultPerformSample(s, i, 1, replies)
    ELSE LET s1 == ExecuteCommand(s, SENSOR_INFO_COMMAND, replies)
             reply == LastReply(s1)
             humidity == ParseReply("MATCH_SENSOR_INFO_HUMIDITY", reply)
             s2 == SetValue(s1, i, HUMIDITY_STR, humidity)
             temperature ==
                 ParseReply("MATCH_SENSOR_INFO_TEMPERATURE", reply)
         IN  IF s2.raised # None THEN s2
             ELSE SetValue(s2, i, TEMPERATURE_STR, temperature)

\* The _perform_sample the class of the device at position i resolves to.
PerformSample(s, i, replies) ==
    CASE s.nodes[i].cls = "DucoBox" -> BoxPerformSample(s, i, replies)
      [] s.nodes[i].cls = "DucoUserControlHumiditySensor"
            -> UserControlHumidityPerformSample(s, i, replies)
      [] OTHER -> DefaultPerformSample(s, i, 1, replies)

\* A sample() that blacklists the device once it has sampled it.
NodeSampleOnce(s, i, replies) ==
    LET s1 == [s EXCEPT !.sampled = Append(@, i), !.cur = i]
    IN  IF ~s1.nodes[i].blacklist
        THEN [PerformSample(s1, i, replies) EXCEPT !.nodes[i].blacklist = TRUE]
        ELSE s1

\* A sample() that does not look at the blacklist.
NodeSampleAnyway(s, i, replies) ==
    PerformSample([s EXCEPT !.sampled = Append(@, i), !.cur = i], i, replies)

\* DucoNode.sample of the device at position i.  Every device of the
\* session was built by add_node with the session as its interface.
NodeSample(s, i, replies) ==
    LET s1 == [s EXCEPT !.sampled = Append(@, i), !.cur = i]
    IN  IF ~s1.nodes[i].blacklist THEN PerformSample(s1, i, replies) ELSE s1

\* The loop of DucoInterface.sample, from position i on.
RECURSIVE SampleFrom(_, _, _)
SampleFrom(s, i, replies) ==
    IF i > Len(s.nodes) \/ s.raised # None THEN s
    ELSE SampleFrom(NodeSample(s, i, replies), i + 1, replies)

\* DucoInterface.sample
InterfaceSample(s, replies) ==
    IF s.live THEN SampleFrom(s, 1, replies) ELSE s

-----------------------------------------------------------------------------
(***************************************************************************)
(* Discovery.                                                              *)
(***************************************************************************)
\* Conditions _store_board_info does not use: any board name, and the mere
\* absence of "BASIC".
BoardIsNamed(board) == board.found
BoardIsNotBasic(board) == ~Contains(board.text, sBASIC)

\* The condition of DucoBox._store_board_info under which it calls
\* set_extended: a board name was parsed (a match of '.+' is never empty)
\* and "BASIC" is not in it.
BoardIsExtended(board) == board.found /\ ~Contains(board.text, sBASIC)

\* DucoInterface.set_extended
SetExtended(s, flag) ==
    LET s1 == [s EXCEPT !.extended = flag]
    IN  [s1 EXCEPT !.trace = Append(@, Event(s1, "set_extended", <<>>))]

\* DucoBox._store_board_info, with DucoInterface.set_extended()
StoreBoardInfo(s, replies) ==
    LET s1 == ExecuteCommand(s, BOARD_INFO_COMMAND, replies)
        board == ParseReply("MATCH_BOARD_NAME", LastReply(s1))
    IN  IF BoardIsExtended(board) THEN SetExtended(s1, TRUE) ELSE s1

\* An add_node that drops a node whose kind no class declares.
AddNodeKnownOnly(s, kind, number, address, replies) ==
    LET cls == NodeClass(kind)
        s1 == IF cls = "DucoBox" THEN StoreBoardInfo(s, replies) ELSE s
    IN  IF cls = "DucoNode" THEN s1
        ELSE [s1 EXCEPT !.nodes = Append(@, NewNode(cls, number, address))]

\* An add_node that puts the new node in front of the others.
AddNodeInFront(s, kind, number, address, replies) ==
    LET cls == NodeClass(kind)
        s1 == IF cls = "DucoBox" THEN StoreBoardInfo(s, replies) ELSE s
    IN  [s1 EXCEPT !.nodes = <<NewNode(cls, number, address)>> \o @]

\* DucoInterface.add_node: the node is built (a DucoBox fetches its board
\* information while it is built) and appended.
AddNode(s, kind, number, address, replies) ==
    LET cls == NodeClass(kind)
        s1 == IF cls = "DucoBox" THEN StoreBoardInfo(s, replies) ELSE s
    IN  [s1 EXCEPT !.nodes = Append(@, NewNode(cls, number, address))]

\* A session that is online only while the line at hand matches, and one
\* that is online after any line.
LiveOnMatchOnly(wasLive, found) == found
LiveAfterAnyLine(wasLive, found) == TRUE

\* self._live after a line of the reply was handled.
LiveAfterLine(wasLive, found) == IF found THEN TRUE ELSE wasLive

\* The loop of DucoInterface.find_nodes over the lines of the reply, each
\* given as the match of MATCH_NETWORK_COMMAND in it.
RECURSIVE FindNodesLines(_, _, _)
FindNodesLines(s, lines, replies) ==
    IF lines = <<>> THEN s
    ELSE LET match == Head(lines)
             s1 == IF match.found
                   THEN AddNode(s, match.kind, match.node, match.address,
                                replies)
                   ELSE s
             s2 == [s1 EXCEPT !.live = LiveAfterLine(s1.live, match.found)]
             s3 == IF match.found
                   THEN [s2 EXCEPT !.trace = Append(@, Event(s2, "_live",
                                                             <<>>))]
                   ELSE s2
         IN  FindNodesLines(s3, Tail(lines), replies)

\* DucoInterface.find_nodes
FindNodes(s, replies) ==
    IF serial
    THEN LET s1 == ExecuteCommand(s, LIST_NETWORK_COMMAND, replies)
         IN  FindNodesLines(s1, Listings[LastReply(s1)], replies)
    ELSE s

-----------------------------------------------------------------------------
(***************************************************************************)
(* Persistence.  The configuration file is a set of sections, at most one  *)
(* per section name; an option is <<>> when the section lacks it and       *)
(* <<value>> when it holds it.                                             *)
(***************************************************************************)
sNode == <<"N", "o", "d", "e">>
sTrue == <<"T", "r", "u", "e">>
sFalse == <<"F", "a", "l", "s", "e">>

\* 'Node{number}'.format(number=self.number)
SectionName(number) == sNode \o number

UpperCase ==
    <<"A", "B", "C", "D", "E", "F", "G", "H", "I", "J", "K", "L", "M",
      "N", "O", "P", "Q", "R", "S", "T", "U", "V", "W", "X", "Y", "Z">>
LowerCase ==
    <<"a", "b", "c", "d", "e", "f", "g", "h", "i", "j", "k", "l", "m",
      "n", "o", "p", "q", "r", "s", "t", "u", "v", "w", "x", "y", "z">>

\* str.lower()
Lower(text) ==
    [k \in 1..Len(text) |->
        IF \E u \in 1..Len(UpperCase) : UpperCase[u] = text[k]
        THEN LowerCase[CHOOSE u \in 1..Len(UpperCase) : UpperCase[u] = text[k]]
        ELSE text[k]]

\* ConfigParser.BOOLEAN_STATES
BooleanTrue == {<<"1">>, <<"y", "e", "s">>, <<"t", "r", "u", "e">>, <<"o", "n">>}
BooleanFalse == {<<"0">>, <<"n", "o">>, <<"f", "a", "l", "s", "e">>, <<"o", "f", "f">>}

\* str(self.blacklist), as ConfigParser.write puts a bool into the file.
BoolText(b) == IF b THEN sTrue ELSE sFalse

\* A _load that takes only the name and the blacklist flag from the file.
NodeLoadOverlay(s, i, cfg) ==
    LET section == SectionName(s.nodes[i].number)
        found == {c \in cfg : c.section = section}
        c == CHOOSE x \in found : TRUE
        s1 == [s EXCEPT !.nodes[i].name = c.name[1]]
        b == Lower(c.blacklist[1])
    IN  IF found = {} \/ c.name = <<>> THEN s
        ELSE IF c.blacklist = <<>> THEN s1
        ELSE [s1 EXCEPT !.nodes[i].blacklist = (b \in BooleanTrue)]

\* DucoNode._load of the device at position i from the sections cfg.  The
\* four options are read in turn; NoSectionError and NoOptionError end the
\* reading and are caught, the ValueError of getboolean is not.
NodeLoad(s, i, cfg) ==
    LET section == SectionName(s.nodes[i].number)
        found == {c \in cfg : c.section = section}
        c == CHOOSE x \in found : TRUE
        s1 == [s EXCEPT !.nodes[i].name = c.name[1]]
        s2 == [s1 EXCEPT !.nodes[i].number = c.number[1]]
        s3 == [s2 EXCEPT !.nodes[i].address = c.address[1]]
        b == Lower(c.blacklist[1])
    IN  IF found = {} \/ c.name = <<>> THEN s
        ELSE IF c.number = <<>> THEN s1
        ELSE IF c.address = <<>> THEN s2
        ELSE IF c.blacklist = <<>> THEN s3
        ELSE IF b \in BooleanTrue THEN [s3 EXCEPT !.nodes[i].blacklist = TRUE]
        ELSE IF b \in BooleanFalse THEN [s3 EXCEPT !.nodes[i].blacklist = FALSE]
        ELSE [s3 EXCEPT !.raised = "ValueError"]

\* The loop of DucoInterface.load, from position i on.
RECURSIVE LoadFrom(_, _, _)
LoadFrom(s, i, cfg) ==
    IF i > Len(s.nodes) \/ s.raised # None THEN s
    ELSE LoadFrom(NodeLoad(s, i, cfg), i + 1, cfg)

\* DucoInterface.load: cfgparser.read(None) raises TypeError; a path that
\* names no file reads as no section.
Load(s) ==
    IF cfgfile THEN LoadFrom(s, 1, file) ELSE [s EXCEPT !.raised = "TypeError"]

\* DucoNode._store of a node into the sections cfg of the parser: the result
\* is [cfg, raised].  add_section refuses a section it already holds.  The
\* program runs under Python 2.7 and under Python 3 (setup.py): strict says
\* that ConfigParser.set validates its value, as Python 3 does, and then
\* refuses the bool self.blacklist.
NodeStore(node, cfg, strict) ==
    LET section == SectionName(node.number)
    IN  IF \E c \in cfg : c.section = section
        THEN [cfg |-> cfg, raised |-> "DuplicateSectionError"]
        ELSE IF strict
        THEN [cfg |-> cfg, raised |-> "TypeError"]
        ELSE [cfg |-> cfg \cup {[section |-> section,
                                 name |-> <<node.name>>,
                                 number |-> <<node.number>>,
                                 address |-> <<node.address>>,
                                 blacklist |-> <<BoolText(node.blacklist)>>]},
              raised |-> None]

\* The loop of DucoInterface.store, from position i on.
RECURSIVE StoreFrom(_, _, _, _)
StoreFrom(ns, i, r, strict) ==
    IF i > Len(ns) \/ r.raised # None THEN r
    ELSE StoreFrom(ns, i + 1, NodeStore(ns[i], r.cfg, strict), strict)

\* DucoInterface.store: [file, raised], the file afterwards and the
\* exception.  open(cfgfile, 'w') empties the file, and cfgparser.write
\* is only reached when no _store raised.
Store(ns, strict) ==
    IF cfgfile
    THEN LET r == StoreFrom(ns, 1, [cfg |-> {}, raised |-> None], strict)
         IN  IF r.raised = None THEN [file |-> r.cfg, raised |-> None]
             ELSE [file |-> {}, raised |-> r.raised]
    ELSE [file |-> file, raised |-> None]

-----------------------------------------------------------------------------
(***************************************************************************)
(* The surroundings: which reply answers which command, and what the       *)
(* configuration file can hold when the session starts.                    *)
(***************************************************************************)
\* The replies explored for a command.
RepliesTo(command) ==
    IF command = FAN_SPEED_COMMAND THEN {FanSpeedReply, InvalidCommand}
    ELSE IF command = SENSOR_INFO_COMMAND
    THEN {SensorInfoReply, SensorInfoTempOnly, InvalidCommand}
    ELSE IF command = BOARD_INFO_COMMAND THEN BoardReplies
    ELSE IF command = LIST_NETWORK_COMMAND THEN NetworkReplies
    ELSE {ParagetReply, InvalidCommand}

\* Every way to answer the commands of a sequence, one reply each.
RECURSIVE ReplyChoices(_)
ReplyChoices(commands) ==
    IF commands = <<>> THEN {<<>>}
    ELSE {<<r>> \o t : r \in RepliesTo(Head(commands)),
                       t \in ReplyChoices(Tail(commands))}

\* The commands sample() of a node issues when nothing raises: they size
\* the replies an action draws.
NodeCommands(node, ext) ==
    IF node.blacklist THEN <<>>
    ELSE IF node.cls = "DucoBox" THEN <<FAN_SPEED_COMMAND>>
    ELSE IF node.cls = "DucoUserControlHumiditySensor" /\ ~ext
    THEN <<SENSOR_INFO_COMMAND>>
    ELSE [k \in 1..Len(ClassParameters(node.cls)) |->
            ParagetCommand(node.number, GetterId(ClassParameters(node.cls)[k]))]

\* Every way to answer the devices of ns during one sample tick: a
\* sequence that holds, per device, the replies to its commands.
RECURSIVE TickReplies(_, _)
TickReplies(ns, ext) ==
    IF ns = <<>> THEN {<<>>}
    ELSE {<<r>> \o t : r \in ReplyChoices(NodeCommands(Head(ns), ext)),
                       t \in TickReplies(Tail(ns), ext)}

\* The boardinfo commands discovery issues for the lines of a reply.
RECURSIVE BoardCommands(_)
BoardCommands(lines) ==
    IF lines = <<>> THEN <<>>
    ELSE LET match == Head(lines)
         IN  (IF match.found /\ NodeClass(match.kind) = "DucoBox"
              THEN <<BOARD_INFO_COMMAND>> ELSE <<>>)
             \o BoardCommands(Tail(lines))

\* The number of lines of a reply to the network command that describe a
\* node.
MatchingLines(reply) ==
    Cardinality({k \in 1..Len(Listings[reply]) : Listings[reply][k].found})

\* The configuration files a session can find when it starts: none (or an
\* empty one), and one that blacklists node 1 and node 2 and gives node 2
\* the address of node 1.
FileNone == {}

FileBlacklist ==
    { [section |-> SectionName(<<"1">>), name |-> <<"Attic">>,
       number |-> <<<<"1">>>>, address |-> <<<<"1">>>>,
       blacklist |-> <<<<"y", "e", "s">>>>],
      [section |-> SectionName(<<"2">>), name |-> <<"Bathroom">>,
       number |-> <<<<"2">>>>, address |-> <<<<"1">>>>,
       blacklist |-> <<<<"O", "n">>>>] }

\* Sections of which that of node 4 lacks the option blacklist and names
\* another number and address, that of node 3 is complete, and that of
\* node 5 lacks the option name.
FilePartial ==
    { [section |-> SectionName(<<"4">>), name |-> <<"Hall">>,
       number |-> <<<<"5">>>>, address |-> <<<<"6">>>>,
       blacklist |-> <<>>],
      [section |-> SectionName(<<"3">>), name |-> <<"Kitchen">>,
       number |-> <<<<"3">>>>, address |-> <<<<"3">>>>,
       blacklist |-> <<<<"n", "o">>>>],
      [section |-> SectionName(<<"5">>), name |-> <<>>,
       number |-> <<<<"7">>>>, address |-> <<<<"7">>>>,
       blacklist |-> <<<<"y", "e", "s">>>>] }

\* The files explored: none, and one that holds all these sections.
InitialFiles == {FileNone, FileBlacklist \cup FilePartial}

\* ducobox_wrapper is not running: the session is used as a library.
NotRunning == [pc |-> "none", args |-> None]

\* The direct calls of add_node that are explored: (kind, number, address).
AddNodeCalls == { <<<<"B", "O", "X">>, <<"1">>, <<"1">>>> }

-----------------------------------------------------------------------------
(***************************************************************************)
(* The session as a state machine: one action per public operation.        *)
(***************************************************************************)
\* DucoInterface.__init__: bind_serial may fail to open the port (the
\* SerialException is caught), no sink is bound, nothing is discovered.
Init ==
    /\ serial \in BOOLEAN
    /\ cfgfile \in BOOLEAN
    /\ file \in (IF cfgfile THEN InitialFiles ELSE {FileNone})
    /\ database = None
    /\ nodes = <<>>
    /\ live = FALSE
    /\ extended = FALSE
    /\ op = "__init__"
    /\ cmds = <<>>
    /\ sunk = <<>>
    /\ sampled = <<>>
    /\ raised = None
    /\ matched = FALSE
    /\ trace = <<>>
    /\ returned = [number |-> <<>>, at |-> 0]
    /\ main = NotRunning

\* The operation name ends with the session as s describes it.
Leave(s, name) ==
    \E r \in {s} :
        /\ nodes' = r.nodes
        /\ live' = r.live
        /\ extended' = r.extended
        /\ cmds' = r.cmds
        /\ sunk' = r.sunk
        /\ sampled' = r.sampled
        /\ raised' = r.raised
        /\ trace' = r.trace
        /\ op' = name

\* itf.find_nodes(): the session makes the network command and then, for
\* every box the reply lists, boardinfo.
FindNodesOp ==
    /\ \E reply \in (IF serial THEN NetworkReplies ELSE {NoReply}) :
         /\ Len(nodes) + MatchingLines(reply) <= MaxNodes
         /\ matched' = (matched \/ MatchingLines(reply) > 0)
         /\ \E boards \in ReplyChoices(BoardCommands(Listings[reply])) :
              Leave(FindNodes(Enter, [c \in {0} |-> <<reply>> \o boards]),
                    "find_nodes")
    /\ UNCHANGED <<main, returned, serial, database, cfgfile, file>>

\* itf.add_node(kind, number, address)
AddNodeOp ==
    /\ Len(nodes) < MaxNodes
    /\ \E call \in AddNodeCalls :
         \E board \in (IF serial THEN BoardReplies ELSE {NoReply}) :
            Leave(AddNode(Enter, call[1], call[2], call[3],
                          [c \in {0} |-> <<board>>]),
                  "add_node")
    /\ UNCHANGED <<main, returned, serial, database, cfgfile, file, matched>>

\* itf.load()
LoadOp ==
    /\ Leave(Load(Enter), "load")
    /\ UNCHANGED <<main, returned, serial, database, cfgfile, file, matched>>

\* itf.store()
StoreOp ==
    /\ \E strict \in BOOLEAN :
         /\ file' = Store(nodes, strict).file
         /\ Leave([Enter EXCEPT !.raised = Store(nodes, strict).raised],
                  "store")
    /\ UNCHANGED <<main, returned, serial, database, cfgfile, matched>>

\* itf.sample()
SampleOp ==
    /\ \E replies \in (IF serial /\ live THEN TickReplies(nodes, extended)
                       ELSE {<<>>}) :
         Leave(InterfaceSample(Enter, replies), "sample")
    /\ UNCHANGED <<main, returned, serial, database, cfgfile, file, matched>>

\* node.sample() of one device of the session
NodeSampleOp ==
    /\ \E i \in 1..Len(nodes) :
         \E r \in (IF serial
                   THEN ReplyChoices(NodeCommands(nodes[i], extended))
                   ELSE {<<>>}) :
            Leave(NodeSample(Enter, i, [c \in {i} |-> r]), "node.sample")
    /\ UNCHANGED <<main, returned, serial, database, cfgfile, file, matched>>

\* itf.bind_database(db)
BindDatabaseOp ==
    /\ \E db \in Sinks \cup {None} :
         /\ database' = db
         /\ Leave(Enter, "bind_database")
    /\ UNCHANGED <<main, returned, serial, cfgfile, file, matched>>

\* itf.set_extended(extended)
SetExtendedOp ==
    /\ \E flag \in BOOLEAN :
         Leave(SetExtended(Enter, flag), "set_extended")
    /\ UNCHANGED <<main, returned, serial, database, cfgfile, file, matched>>

\* The operations of a session as the program and its devices use it.
Next ==
    \/ FindNodesOp
    \/ AddNodeOp
    \/ LoadOp
    \/ StoreOp
    \/ SampleOp
    \/ NodeSampleOp
    \/ BindDatabaseOp

Spec == Init /\ [][Next]_vars

\* The operations of the session itself, set_extended called from outside
\* a DucoBox included.
NextOnline ==
    \/ FindNodesOp
    \/ LoadOp
    \/ StoreOp
    \/ SampleOp
    \/ BindDatabaseOp
    \/ SetExtendedOp

SpecOnline == Init /\ [][NextOnline]_vars

-----------------------------------------------------------------------------
(***************************************************************************)
(* Properties of the session.  The unprimed variables of a step are the    *)
(* session before the operation, the primed ones the session after it and  *)
(* the log of what the operation did.                                      *)
(***************************************************************************)
\* The entries of a command log made by the caller c, in order.
CommandsBy(log, c) ==
    LET Mine(e) == e.node = c
    IN  SelectSeq(log, Mine)

\* The boardinfo entries of a command log, in order.
BoardInfos(log) ==
    LET IsBoardInfo(e) == e.cmd = BOARD_INFO_COMMAND
    IN  SelectSeq(log, IsBoardInfo)

\* The log entry e asks for the parameter p of a device numbered number.
Asks(e, p, number) ==
    \/ e.cmd = FAN_SPEED_COMMAND /\ p = FANSPEED_STR
    \/ e.cmd = SENSOR_INFO_COMMAND /\ p \in {HUMIDITY_STR, TEMPERATURE_STR}
    \/ /\ p \in {CO2_STR, HUMIDITY_STR, TEMPERATURE_STR}
       /\ e.cmd = ParagetCommand(number, GetterId(p))

\* The reply of the log entry e matches the pattern expected for p.
Answers(e, p) ==
    IF e.cmd = FAN_SPEED_COMMAND
    THEN ParseReply("MATCH_FAN_SPEED", e.reply).found
    ELSE IF e.cmd = SENSOR_INFO_COMMAND
    THEN IF p = HUMIDITY_STR
         THEN ParseReply("MATCH_SENSOR_INFO_HUMIDITY", e.reply).found
         ELSE ParseReply("MATCH_SENSOR_INFO_TEMPERATURE", e.reply).found
    ELSE ParseReply("PARAGET_REGEX", e.reply).found

\* The operation of the step sampled devices.
Sampling == op' \in {"sample", "node.sample"}

\* The operation of the step built devices.
Building == op' \in {"find_nodes", "add_node"}

\* The positions of the boxes the operation of the step has built.
NewBoxes ==
    {i \in (Len(nodes) + 1)..Len(nodes') : nodes'[i].cls = "DucoBox"}

(***************************************************************************)
(* C1: in every reachable state the nodes list holds at most one device    *)
(* per address.                                                            *)
(***************************************************************************)
C1_OneDevicePerAddress ==
    \A i, j \in 1..Len(nodes) :
        nodes[i].address = nodes[j].address => i = j

(***************************************************************************)
(* C2: once the session is online it is online in every later state,       *)
(* whatever find_nodes, load, store, sample, bind_database and             *)
(* set_extended calls follow.                                              *)
(***************************************************************************)
C2_OnlineForGood == [][live => live']_vars

\* An online session whose latest find_nodes got no reply.
C2_Witness ==
    /\ live
    /\ op = "find_nodes"
    /\ cmds # <<>>
    /\ cmds[1].reply = NoReply

C4_SampleAll ==
    [][ op' = "sample" =>
          IF live
          THEN sampled' = [i \in 1..Len(nodes) |-> i]
          ELSE cmds' = <<>> /\ sunk' = <<>> /\ sampled' = <<>>
                 /\ nodes' = nodes ]_vars

\* C4 as far as it holds: the same, for the ticks that end without an
\* exception.
C4_UnlessRaised ==
    [][ (op' = "sample" /\ raised' = None) =>
          IF live
          THEN sampled' = [i \in 1..Len(nodes) |-> i]
          ELSE cmds' = <<>> /\ sunk' = <<>> /\ sampled' = <<>>
                 /\ nodes' = nodes ]_vars

C6_HumidityControlCommands ==
    [][ Sampling =>
          \A i \in Range(sampled') :
              (nodes[i].cls = "DucoUserControlHumiditySensor"
                 /\ ~nodes[i].blacklist) =>
                  LET mine == CommandsBy(cmds', i)
                      n == nodes[i].number
                  IN  IF extended
                      THEN /\ Len(mine) = 2
                           /\ {mine[k].cmd : k \in 1..Len(mine)}
                                = {ParagetCommand(n, HUMIDITY_PARAGET_ID),
                                   ParagetCommand(n, TEMPERATURE_PARAGET_ID)}
                      ELSE /\ Len(mine) = 1
                           /\ mine[1].cmd = SENSOR_INFO_COMMAND ]_vars

\* C6 as far as it holds: the same, for the samples that end without an
\* exception.
C6_UnlessRaised ==
    [][ (Sampling /\ raised' = None) =>
          \A i \in Range(sampled') :
              (nodes[i].cls = "DucoUserControlHumiditySensor"
                 /\ ~nodes[i].blacklist) =>
                  LET mine == CommandsBy(cmds', i)
                      n == nodes[i].number
                  IN  IF extended
                      THEN /\ Len(mine) = 2
                           /\ {mine[k].cmd : k \in 1..Len(mine)}
                                = {ParagetCommand(n, HUMIDITY_PARAGET_ID),
                                   ParagetCommand(n, TEMPERATURE_PARAGET_ID)}
                      ELSE /\ Len(mine) = 1
                           /\ mine[1].cmd = SENSOR_INFO_COMMAND ]_vars

(***************************************************************************)
(* C7: a box that is built makes exactly one boardinfo command, and when   *)
(* the board name of the reply does not contain "BASIC" the session is     *)
(* extended afterwards, a reply without any board name included.           *)
(***************************************************************************)
C7_ExtendedUnlessBasic ==
    [][ Building =>
          /\ Len(BoardInfos(cmds')) = Cardinality(NewBoxes)
          /\ \A k \in 1..Len(BoardInfos(cmds')) :
                ~Contains(ParseReply("MATCH_BOARD_NAME",
                                     BoardInfos(cmds')[k].reply).text,
                          sBASIC)
                => extended' ]_vars

(***************************************************************************)
(* C7, amended: a box that is built makes exactly one boardinfo command;   *)
(* when a board name can be extracted from the reply and it does not       *)
(* contain "BASIC" the session is extended afterwards; when no board name  *)
(* can be extracted from any boardinfo reply of the operation the          *)
(* extended flag stays as it was.                                          *)
(***************************************************************************)
C7_ExtendedIfNamedNotBasic ==
    [][ Building =>
          LET infos == BoardInfos(cmds')
              Board(k) == ParseReply("MATCH_BOARD_NAME", infos[k].reply)
          IN  /\ Len(infos) = Cardinality(NewBoxes)
              /\ \A k \in 1..Len(infos) :
                    (Board(k).found /\ ~Contains(Board(k).text, sBASIC))
                    => extended'
              /\ (\A k \in 1..Len(infos) : ~Board(k).found)
                    => extended' = extended ]_vars

\* A connected session has built a box whose boardinfo reply holds no
\* board name, and is not extended.
C7_Witness ==
    /\ op \in {"find_nodes", "add_node"}
    /\ ~extended
    /\ \E k \in 1..Len(cmds) :
          /\ cmds[k].cmd = BOARD_INFO_COMMAND
          /\ cmds[k].sent
          /\ ~ParseReply("MATCH_BOARD_NAME", cmds[k].reply).found

(***************************************************************************)
(* C8: the extended flag goes from false to true only in an operation      *)
(* that builds a box whose boardinfo reply names a board without "BASIC".  *)
(***************************************************************************)
C8_ExtendedOnlyByBoard ==
    [][ (~extended /\ extended') =>
          /\ Building
          /\ NewBoxes # {}
          /\ \E k \in 1..Len(cmds') :
                /\ cmds'[k].cmd = BOARD_INFO_COMMAND
                /\ ParseReply("MATCH_BOARD_NAME", cmds'[k].reply).found
                /\ ~Contains(ParseReply("MATCH_BOARD_NAME",
                                        cmds'[k].reply).text, sBASIC)
      ]_vars

\* find_nodes built a box on a board that is not BASIC and the session is
\* extended.
C8_Witness ==
    /\ op = "find_nodes"
    /\ extended
    /\ \E k \in 1..Len(cmds) :
          /\ cmds[k].cmd = BOARD_INFO_COMMAND
          /\ ParseReply("MATCH_BOARD_NAME", cmds[k].reply).found
          /\ ~Contains(ParseReply("MATCH_BOARD_NAME", cmds[k].reply).text,
                       sBASIC)

(***************************************************************************)
(* C9: a session whose serial port could not be opened exists, and in it   *)
(* every execute_command returns the empty reply without writing to the    *)
(* port, find_nodes adds no device, the session stays offline and          *)
(* sample() of the session makes no command.                               *)
(***************************************************************************)
C9_NoSerialPort ==
    [][ ~serial =>
          /\ \A k \in 1..Len(cmds') :
                cmds'[k].reply = NoReply /\ ~cmds'[k].sent
          /\ ~live'
          /\ op' = "find_nodes" => nodes' = nodes
          /\ op' = "sample" => cmds' = <<>> ]_vars

\* Without a serial port a device was sampled and asked for a value.
C9_Witness ==
    /\ ~serial
    /\ op = "node.sample"
    /\ cmds # <<>>

(***************************************************************************)
(* C10: when the reply to a sampling command does not match the pattern    *)
(* of a parameter, the parameter keeps the value it had and nothing is     *)
(* forwarded for it; such a reply raises nothing: a sample that makes no   *)
(* command with a matching reply ends without an exception, and one that   *)
(* ends with an exception does so on a reply that did match.               *)
(***************************************************************************)
C10_MismatchKeepsValue ==
    [][ Sampling =>
          /\ \A k \in 1..Len(cmds') :
                LET e == cmds'[k]
                IN  \A p \in DOMAIN nodes[e.node].parameters :
                        (Asks(e, p, nodes[e.node].number) /\ ~Answers(e, p)) =>
                            /\ nodes'[e.node].parameters[p]
                                 = nodes[e.node].parameters[p]
                            /\ \A j \in 1..Len(sunk') :
                                  ~(sunk'[j].at = e.node
                                      /\ sunk'[j].measurement = p)
          /\ raised' # None =>
                LET e == cmds'[Len(cmds')]
                IN  \E p \in DOMAIN nodes[e.node].parameters :
                        Asks(e, p, nodes[e.node].number) /\ Answers(e, p)
      ]_vars

\* A device was asked for a parameter that held a value, the reply did not
\* match, and the sample ended without an exception.
C10_Witness ==
    /\ op \in {"sample", "node.sample"}
    /\ raised = None
    /\ \E k \in 1..Len(cmds) :
          LET e == cmds[k]
          IN  \E p \in DOMAIN nodes[e.node].parameters :
                  /\ Asks(e, p, nodes[e.node].number)
                  /\ ~Answers(e, p)
                  /\ cmds[k].sent
                  /\ nodes[e.node].parameters[p] # NoValue

(***************************************************************************)
(* C11: a sink that fails to take a point never ends sample() with an      *)
(* exception: the tick of an online session ends without one, has called   *)
(* sample() on every device, and every device that is not blacklisted has  *)
(* made all the commands of its kind.                                      *)
(***************************************************************************)
C11_SinkFailureAbsorbed ==
    [][ (op' = "sample" /\ live) =>
          /\ raised' = None
          /\ sampled' = [i \in 1..Len(nodes) |-> i]
          /\ \A i \in 1..Len(nodes) :
                Len(CommandsBy(cmds', i))
                    = Len(NodeCommands(nodes[i], extended)) ]_vars

\* The same, for the ticks during which the sink bound is not one built
\* from an incomplete configuration.
C11_UnlessIncomplete ==
    [][ (op' = "sample" /\ live /\ database # InfluxIncomplete) =>
          /\ raised' = None
          /\ sampled' = [i \in 1..Len(nodes) |-> i]
          /\ \A i \in 1..Len(nodes) :
                Len(CommandsBy(cmds', i))
                    = Len(NodeCommands(nodes[i], extended)) ]_vars

\* The lines of a reply to the network command that describe a node, in
\* the order of the reply.
Listed(reply) ==
    LET Found(match) == match.found
    IN  SelectSeq(Listings[reply], Found)

\* No class of the taxonomy declares the kind.
UnknownKind(kind) == \A j \in 1..Len(Subclasses) : Subclasses[j].kind # kind

(***************************************************************************)
(* C12: when a line of the network reply names a kind no class declares,   *)
(* find_nodes raises nothing, appends for that line a generic device with  *)
(* the number and the address of the line and no parameter, appends the    *)
(* devices of the other lines as well, and the session is online.          *)
(***************************************************************************)
C12_UnknownKindIsGeneric ==
    [][ (op' = "find_nodes" /\ cmds' # <<>>) =>
          LET ls == Listed(cmds'[1].reply)
          IN  \A k \in 1..Len(ls) :
                 UnknownKind(ls[k].kind) =>
                    /\ raised' = None
                    /\ Len(nodes') = Len(nodes) + Len(ls)
                    /\ nodes'[Len(nodes) + k].cls = "DucoNode"
                    /\ nodes'[Len(nodes) + k].number = ls[k].node
                    /\ nodes'[Len(nodes) + k].address = ls[k].address
                    /\ DOMAIN nodes'[Len(nodes) + k].parameters = {}
                    /\ live' ]_vars

\* Discovery has met a line of an unknown kind followed by the line of a
\* CO2 control: the session is online and holds a generic device and the
\* control after it.
C12_Witness ==
    /\ op = "find_nodes"
    /\ live
    /\ cmds # <<>> /\ Len(Listed(cmds[1].reply)) = 2
    /\ UnknownKind(Listed(cmds[1].reply)[1].kind)
    /\ Len(nodes) = 2
    /\ nodes[1].cls = "DucoNode" /\ nodes[1].number = <<"4">>
    /\ nodes[2].cls = "DucoUserControlCO2Sensor"

(***************************************************************************)
(* C13: find_nodes on a session without devices leaves in nodes one device *)
(* per line of the reply that matches the network pattern, in the order    *)
(* of the reply, with the number and the address of its line and the       *)
(* class that declares the kind of the line (DucoNode when none does);     *)
(* the other lines add nothing, and without a serial port nothing is       *)
(* added.                                                                  *)
(***************************************************************************)
C13_NodesAreTheMatchingLines ==
    [][ (op' = "find_nodes" /\ nodes = <<>>) =>
          IF cmds' = <<>> THEN nodes' = <<>>
          ELSE LET ls == Listed(cmds'[1].reply)
               IN  /\ Len(nodes') = Len(ls)
                   /\ \A k \in 1..Len(ls) :
                         /\ nodes'[k].number = ls[k].node
                         /\ nodes'[k].address = ls[k].address
                         /\ \/ \E j \in 1..Len(Subclasses) :
                                  /\ Subclasses[j].kind = ls[k].kind
                                  /\ Subclasses[j].cls = nodes'[k].cls
                            \/ /\ UnknownKind(ls[k].kind)
                               /\ nodes'[k].cls = "DucoNode" ]_vars

\* Discovery on a session without devices has read a reply of three lines,
\* the first of them a header, and holds the box and the humidity control
\* of the other two.
C13_Witness ==
    /\ op = "find_nodes"
    /\ cmds # <<>>
    /\ Len(Listings[cmds[1].reply]) = 3
    /\ ~Listings[cmds[1].reply][1].found
    /\ Len(nodes) = 2
    /\ nodes[1].cls = "DucoBox" /\ nodes[1].address = <<"1">>
    /\ nodes[2].cls = "DucoUserControlHumiditySensor"
    /\ nodes[2].number = <<"2">>

(***************************************************************************)
(* C14: the parameters of a device are those of its kind: fanspeed for a   *)
(* BOX; humidity and temperature for UCRH and VLVRH; CO2 and temperature   *)
(* for UCCO2 and VLVCO2; temperature for CLIMA; none for UC, UCBAT, VLV,   *)
(* SWITCH and the generic device.  Every class is built with them, and     *)
(* every device of a session holds them in every state.                    *)
(***************************************************************************)
C14_ParametersOfKind ==
    LET Fixed(cls) ==
            CASE cls = "DucoBox" -> {FANSPEED_STR}
              [] cls = "DucoUserControlHumiditySensor"
                    -> {HUMIDITY_STR, TEMPERATURE_STR}
              [] cls = "DucoValveHumiditySensor"
                    -> {HUMIDITY_STR, TEMPERATURE_STR}
              [] cls = "DucoUserControlCO2Sensor"
                    -> {CO2_STR, TEMPERATURE_STR}
              [] cls = "DucoValveCO2Sensor" -> {CO2_STR, TEMPERATURE_STR}
              [] cls = "DucoGrille" -> {TEMPERATURE_STR}
              [] cls \in {"DucoUserControl", "DucoUserControlBattery",
                          "DucoValve", "DucoSwitch", "DucoNode"} -> {}
        Kinds == {<<"B", "O", "X">>, <<"U", "C">>, <<"U", "C", "B", "A", "T">>,
                  <<"U", "C", "R", "H">>, <<"U", "C", "C", "O", "2">>,
                  <<"V", "L", "V">>, <<"V", "L", "V", "R", "H">>,
                  <<"V", "L", "V", "C", "O", "2">>,
                  <<"S", "W", "I", "T", "C", "H">>,
                  <<"C", "L", "I", "M", "A">>, <<"F", "O", "O">>}
    IN  /\ \A kind \in Kinds :
              DOMAIN NewNode(NodeClass(kind), <<"1">>, <<"1">>).parameters
                  = Fixed(NodeClass(kind))
        /\ NodeClass(<<"V", "L", "V", "R", "H">>) = "DucoValveHumiditySensor"
        /\ NodeClass(<<"C", "L", "I", "M", "A">>) = "DucoGrille"
        /\ NodeClass(<<"U", "C">>) = "DucoUserControl"
        /\ \A i \in 1..Len(nodes) :
              DOMAIN nodes[i].parameters = Fixed(nodes[i].cls)

\* A CO2 control that holds a sampled CO2 value and a generic device have
\* both been through load().
C14_Witness ==
    /\ op = "load"
    /\ \E i \in 1..Len(nodes) :
          /\ nodes[i].cls = "DucoUserControlCO2Sensor"
          /\ nodes[i].parameters[CO2_STR] # NoValue
    /\ \E i \in 1..Len(nodes) : nodes[i].cls = "DucoNode"

\* The device at position i of nodes samples by DucoNode._perform_sample
\* in a session whose extended flag is ext.
UsesDefaultProcedure(i, ext) ==
    /\ nodes[i].cls # "DucoBox"
    /\ nodes[i].cls = "DucoUserControlHumiditySensor" => ext

\* The commands the device at position i made during the step are one
\* nodeparaget with its number for each of its parameters: 74 for CO2, 75
\* for humidity, 73 for temperature.
OneParagetPerParameter(i) ==
    LET mine == CommandsBy(cmds', i)
        Id(p) == CASE p = CO2_STR -> 74
                   [] p = HUMIDITY_STR -> 75
                   [] p = TEMPERATURE_STR -> 73
    IN  /\ Len(mine) = Cardinality(DOMAIN nodes[i].parameters)
        /\ \A p \in DOMAIN nodes[i].parameters :
              Cardinality({k \in 1..Len(mine) :
                  mine[k].cmd = ParagetCommand(nodes[i].number, Id(p))}) = 1

(***************************************************************************)
(* C15: a sample of a device that is not blacklisted and samples by the    *)
(* default procedure (every kind but BOX, and UCRH only in an extended     *)
(* session) makes exactly one nodeparaget command per parameter of the     *)
(* device, with the number of the device and the id of the parameter, and  *)
(* no other command; a device without parameters makes none.               *)
(***************************************************************************)
C15_DefaultProcedureCommands ==
    [][ Sampling =>
          \A i \in Range(sampled') :
              (~nodes[i].blacklist /\ UsesDefaultProcedure(i, extended)) =>
                  OneParagetPerParameter(i) ]_vars

\* The same, for the samples that end without an exception.
C15_UnlessRaised ==
    [][ (Sampling /\ raised' = None) =>
          \A i \in Range(sampled') :
              (~nodes[i].blacklist /\ UsesDefaultProcedure(i, extended)) =>
                  OneParagetPerParameter(i) ]_vars

(***************************************************************************)
(* C16: a sample of a box that is not blacklisted makes exactly one        *)
(* command, fanspeed, and when the reply is 'Actual 1438 Filtered 1449'    *)
(* the fanspeed parameter of the box holds 1449 with scaling 1 afterwards. *)
(***************************************************************************)
C16_BoxFanSpeed ==
    [][ Sampling =>
          \A i \in Range(sampled') :
              (~nodes[i].blacklist /\ nodes[i].cls = "DucoBox") =>
                  LET mine == CommandsBy(cmds', i)
                  IN  /\ Len(mine) = 1
                      /\ mine[1].cmd = <<"f", "a", "n", "s", "p", "e", "e", "d">>
                      /\ mine[1].reply = FanSpeedReply =>
                            nodes'[i].parameters[FANSPEED_STR] = <<1449, 1>>
      ]_vars

\* A box was sampled over the serial line, the reply held both numbers,
\* and the box holds the filtered one.
C16_Witness ==
    /\ op \in {"sample", "node.sample"}
    /\ \E k \in 1..Len(cmds) :
          /\ cmds[k].sent
          /\ cmds[k].cmd = FAN_SPEED_COMMAND
          /\ cmds[k].reply = FanSpeedReply
          /\ nodes[cmds[k].node].cls = "DucoBox"
          /\ nodes[cmds[k].node].parameters[FANSPEED_STR] = <<1449, 1>>

\* The store_sample calls of the step for the parameter p of the device at
\* position i.
CallsFor(i, p) ==
    {j \in 1..Len(sunk') : sunk'[j].at = i /\ sunk'[j].measurement = p}

\* The commands of the step by the device at position i that ask for its
\* parameter p and whose reply holds a value for it.
ValuesFor(i, p) ==
    {k \in 1..Len(cmds') :
        /\ cmds'[k].node = i
        /\ Asks(cmds'[k], p, nodes[i].number)
        /\ Answers(cmds'[k], p)}

(***************************************************************************)
(* C17: during a sample every store_sample call goes to the sink bound at  *)
(* that moment, for the device and the parameter the value was extracted   *)
(* for and with the scaled value the parameter holds; a parameter gets at  *)
(* most one call, only when a reply held a value for it, and exactly one   *)
(* for every such reply when the sample ends without an exception; with    *)
(* no sink bound there is no call and no exception.                        *)
(***************************************************************************)
C17_ForwardedToBoundSink ==
    [][ Sampling =>
          /\ \A j \in 1..Len(sunk') :
                /\ database # None
                /\ sunk'[j].db = database
                /\ sunk'[j].at \in Range(sampled')
                /\ sunk'[j].node = nodes[sunk'[j].at].number
                /\ sunk'[j].measurement
                       \in DOMAIN nodes[sunk'[j].at].parameters
                /\ sunk'[j].value
                       = nodes'[sunk'[j].at].parameters[sunk'[j].measurement]
          /\ \A i \in 1..Len(nodes) :
                \A p \in DOMAIN nodes[i].parameters :
                    /\ Cardinality(CallsFor(i, p)) <= Cardinality(ValuesFor(i, p))
                    /\ Cardinality(ValuesFor(i, p)) <= 1
                    /\ (raised' = None /\ database # None) =>
                          Cardinality(CallsFor(i, p))
                              = Cardinality(ValuesFor(i, p))
          /\ database = None => (sunk' = <<>> /\ raised' = None) ]_vars

\* With the second sink bound, a tick has extracted two values of one
\* device and has forwarded both to that sink.
C17_Witness ==
    /\ op = "sample"
    /\ database = InfluxB
    /\ Len(sunk) >= 2
    /\ sunk[1].at = sunk[2].at
    /\ sunk[1].measurement # sunk[2].measurement
    /\ \A j \in 1..Len(sunk) : sunk[j].db = InfluxB

\* With no sink bound, a sample has extracted a value and has ended
\* without an exception.
C17_WitnessNoSink ==
    /\ op \in {"sample", "node.sample"}
    /\ database = None
    /\ raised = None
    /\ \E k \in 1..Len(cmds) :
          \E p \in DOMAIN nodes[cmds[k].node].parameters :
              /\ Answers(cmds[k], p)
              /\ nodes[cmds[k].node].parameters[p] # NoValue

\* The device at position i of nodes comes back from the file of the step:
\* a device of its class built anew with its number, at its address or at
\* another one, holds its number, address, name and blacklist flag after
\* _load from that file.
ComesBack(i) ==
    \A address \in {nodes[i].address, <<"9">>} :
        LET fresh == NewNode(nodes[i].cls, nodes[i].number, address)
            loaded == NodeLoad([Enter EXCEPT !.nodes = <<fresh>>], 1, file')
        IN  /\ loaded.raised = None
            /\ loaded.nodes[1].number = nodes[i].number
            /\ loaded.nodes[1].address = nodes[i].address
            /\ loaded.nodes[1].name = nodes[i].name
            /\ loaded.nodes[1].blacklist = nodes[i].blacklist

(***************************************************************************)
(* C18: what store() writes for a device, load() reads back into a device  *)
(* built anew with the same number: number, address, name and blacklist    *)
(* flag are the ones the device had, whether the flag is set or not.       *)
(***************************************************************************)
C18_RoundTrip ==
    [][ (op' = "store" /\ cfgfile) =>
          \A i \in 1..Len(nodes) : ComesBack(i) ]_vars

\* The same, for a store() that ends without an exception.
C18_UnlessRaised ==
    [][ (op' = "store" /\ cfgfile /\ raised' = None) =>
          \A i \in 1..Len(nodes) : ComesBack(i) ]_vars

\* A store() without an exception has written a device that is blacklisted
\* and carries a name of its own.
C18_Stored ==
    /\ op = "store" /\ cfgfile /\ raised = None
    /\ \E i \in 1..Len(nodes) : nodes[i].blacklist /\ nodes[i].name = "Attic"
    /\ Cardinality(file) = Len(nodes)

\* The sections of the file that _load looks up for the device at position
\* i of nodes, and whether the lookup ends with NoSectionError or
\* NoOptionError.
RecordsOf(i) == {c \in file : c.section = SectionName(nodes[i].number)}

LacksRecord(i) ==
    \/ RecordsOf(i) = {}
    \/ \E c \in RecordsOf(i) :
          <<>> \in {c.name, c.number, c.address, c.blacklist}

\* load() has gone on to every device whose record is complete: it holds
\* the name of its record.
LoadReachedAll ==
    \A j \in 1..Len(nodes) :
        ~LacksRecord(j) => \E c \in RecordsOf(j) : nodes'[j].name = c.name[1]

(***************************************************************************)
(* C19: when the file holds no section for a device, or the section lacks  *)
(* an option, load() raises nothing, goes on to the other devices, and     *)
(* the device keeps the number, the address and the blacklist flag it had. *)
(***************************************************************************)
C19_MissingRecordKeepsDevice ==
    [][ (op' = "load" /\ cfgfile) =>
          \A i \in 1..Len(nodes) :
              LacksRecord(i) =>
                  /\ raised' = None
                  /\ LoadReachedAll
                  /\ nodes'[i].number = nodes[i].number
                  /\ nodes'[i].address = nodes[i].address
                  /\ nodes'[i].blacklist = nodes[i].blacklist ]_vars

\* What does hold: load() raises nothing and goes on, the device keeps its
\* blacklist flag, and it keeps every field when the section or its first
\* option, name, is missing.
C19_MissingRecordKeepsFlag ==
    [][ (op' = "load" /\ cfgfile) =>
          \A i \in 1..Len(nodes) :
              LacksRecord(i) =>
                  /\ raised' = None
                  /\ LoadReachedAll
                  /\ nodes'[i].blacklist = nodes[i].blacklist
                  /\ (\A c \in RecordsOf(i) : c.name = <<>>) =>
                        nodes'[i] = nodes[i] ]_vars

\* load() has met a device whose section lacks an option and then one
\* with a complete section, and has given the second its name.
C19_Reached ==
    /\ op = "load" /\ raised = None
    /\ Len(nodes) = 2
    /\ nodes[1].name = "Hall" /\ ~nodes[1].blacklist
    /\ nodes[2].name = "Kitchen"

RecordWritten(i) ==
    \E c \in file' :
        /\ c.section = <<"N", "o", "d", "e">> \o nodes[i].number
        /\ c.name = <<nodes[i].name>>
        /\ c.number = <<nodes[i].number>>
        /\ c.address = <<nodes[i].address>>
        /\ Lower(c.blacklist[1]) \in
              (IF nodes[i].blacklist THEN BooleanTrue ELSE BooleanFalse)

(***************************************************************************)
(* C21: store() of a session with a configuration path ends without an     *)
(* exception and leaves in the file one section per device, named after    *)
(* the number of the device and holding its name, number, address and      *)
(* blacklist flag, also when two devices carry the same number.            *)
(***************************************************************************)
C21_StoreEmitsAll ==
    [][ (op' = "store" /\ cfgfile) =>
          /\ raised' = None
          /\ \A i \in 1..Len(nodes) : RecordWritten(i)
          /\ Cardinality(file') = Len(nodes) ]_vars

\* What does hold: store() ends without an exception, with TypeError or
\* with DuplicateSectionError; when it ends without one the file holds
\* exactly the sections of the devices, and DuplicateSectionError is met
\* exactly by the lists in which two devices carry the same number and no
\* TypeError came first.
C21_UnlessRaised ==
    [][ (op' = "store" /\ cfgfile) =>
          LET twins == \E i, j \in 1..Len(nodes) :
                           i # j /\ nodes[i].number = nodes[j].number
          IN  /\ raised' \in {None, "TypeError", "DuplicateSectionError"}
              /\ raised' = None =>
                    /\ \A i \in 1..Len(nodes) : RecordWritten(i)
                    /\ Cardinality(file') = Len(nodes)
                    /\ ~twins
              /\ raised' = "DuplicateSectionError" => twins
              /\ raised' # None => file' = {} ]_vars

\* store() has met two discovered devices with one number.
C21_Twins ==
    /\ op = "store" /\ cfgfile
    /\ raised = "DuplicateSectionError"
    /\ Len(nodes) = 2 /\ nodes[1].number = nodes[2].number


-----------------------------------------------------------------------------
\* An event of a trace is the write of a command, the read of a reply.
IsCommandWrite(e) == e.ev = "write" /\ e.text # sCR
IsReplyRead(e) == e.ev = "readline"

\* The entries of a command log that were written to the serial port.
SentCommands(log) ==
    LET WasSent(e) == e.sent
    IN  SelectSeq(log, WasSent)

\* C22: commands are issued strictly sequentially.  In every operation the
\* reply of a command is read before the first byte of the next command is
\* written: every write of a command is followed by the write of '\r' and
\* the read of its reply, every read of a reply follows such a write (so
\* that at most one command is outstanding on the serial line at any
\* moment, and none when the operation ends), and the writes and reads are
\* those of the commands of the operation, in their order.
C22_StrictlySequential ==
    [][ LET W == SelectSeq(trace', IsCommandWrite)
            R == SelectSeq(trace', IsReplyRead)
            S == SentCommands(cmds')
        IN  /\ \A k \in DOMAIN trace' :
                  /\ IsCommandWrite(trace'[k]) =>
                        /\ k + 2 <= Len(trace')
                        /\ trace'[k + 1].ev = "write"
                        /\ trace'[k + 1].text = sCR
                        /\ IsReplyRead(trace'[k + 2])
                  /\ IsReplyRead(trace'[k]) =>
                        k > 2 /\ IsCommandWrite(trace'[k - 2])
            /\ Len(W) = Len(S) /\ Len(R) = Len(S)
            /\ \A j \in DOMAIN S :
                  W[j].text = S[j].cmd /\ R[j].text = S[j].reply ]_vars

\* A discovery wrote boardinfo after it had read the reply to network.
C22_Witness ==
    /\ op = "find_nodes"
    /\ \E k, r, l \in DOMAIN trace :
          /\ k < r /\ r < l
          /\ IsCommandWrite(trace[k]) /\ trace[k].text = LIST_NETWORK_COMMAND
          /\ IsReplyRead(trace[r])
          /\ IsCommandWrite(trace[l]) /\ trace[l].text = BOARD_INFO_COMMAND

\* A tick wrote two commands, the reply to the first one read in between.
C22_WitnessTick ==
    /\ op = "sample"
    /\ \E k, r, l \in DOMAIN trace :
          /\ k < r /\ r < l
          /\ IsCommandWrite(trace[k])
          /\ IsReplyRead(trace[r]) /\ trace[r].text # NoReply
          /\ IsCommandWrite(trace[l])


-----------------------------------------------------------------------------
(***************************************************************************)
(* The program ducobox_wrapper.  main.pc names the statement it executes   *)
(* next, "exit" once an exception has left it; main.args are its           *)
(* arguments as parse_args sees them.                                      *)
(***************************************************************************)
\* The command lines explored: --port given or not, --loglevel a level of
\* the logging package or not, --interval a positive number, text that is
\* no number, or a negative number, --influxdb absent or the configuration
\* file of a sink.
MainArgs ==
    [port : BOOLEAN,
     loglevel : {"info", "invalid"},
     interval : {"300", "invalid", "-1"},
     influxdb : {None, InfluxA, InfluxIncomplete}]

\* parser.parse_args(args): argparse leaves with SystemExit(2) when the
\* required --port is missing or float() refuses the interval.
ParseArgsFails(args) == ~args.port \/ args.interval = "invalid"

\* set_logging_level raises ValueError for a name that is no level.
SetLoggingLevelFails(args) == args.loglevel = "invalid"

\* time.sleep(args.interval) raises ValueError for a negative number.
SleepFails(args) == args.interval = "-1"

\* 'if itf.is_online(): itf.store()': the statement that follows load().
AlwaysStore(online) == "store"
AfterLoad(online) == IF online THEN "store" ELSE "sample"

\* The wrapper moves on to the statement next, or leaves with the exception
\* the operation raised.
MainGoes(next) ==
    main' = [main EXCEPT !.pc = IF raised' # None THEN "exit" ELSE next]

\* Before DucoInterface(...) is called there is no session: no serial port
\* is open and nothing was discovered.
InitMain ==
    /\ main \in [pc : {"parse_args"}, args : MainArgs]
    /\ serial = FALSE
    /\ cfgfile = TRUE
    /\ file \in InitialFiles
    /\ database = None
    /\ nodes = <<>>
    /\ live = FALSE
    /\ extended = FALSE
    /\ op = "main"
    /\ cmds = <<>>
    /\ sunk = <<>>
    /\ sampled = <<>>
    /\ raised = None
    /\ matched = FALSE
    /\ trace = <<>>
    /\ returned = [number |-> <<>>, at |-> 0]

\* args = parser.parse_args(args)
MainParseArgs ==
    /\ main.pc = "parse_args"
    /\ Leave([Enter EXCEPT !.raised = IF ParseArgsFails(main.args)
                                       THEN "SystemExit" ELSE None],
             "parse_args")
    /\ MainGoes("set_logging_level")
    /\ UNCHANGED <<returned, serial, database, cfgfile, file, matched>>

\* set_logging_level(args.loglevel)
MainSetLoggingLevel ==
    /\ main.pc = "set_logging_level"
    /\ Leave([Enter EXCEPT !.raised = IF SetLoggingLevelFails(main.args)
                                       THEN "ValueError" ELSE None],
             "set_logging_level")
    /\ MainGoes("DucoInterface")
    /\ UNCHANGED <<returned, serial, database, cfgfile, file, matched>>

\* itf = DucoInterface(port=args.port, cfgfile=args.network): bind_serial
\* opens the port, or logs that it could not.
MainDucoInterface ==
    /\ main.pc = "DucoInterface"
    /\ serial' \in BOOLEAN
    /\ Leave(Enter, "__init__")
    /\ MainGoes("bind_database")
    /\ UNCHANGED <<returned, database, cfgfile, file, matched>>

\* if args.influxdb is not None: itf.bind_database(InfluxDb(args.influxdb))
MainBindDatabase ==
    /\ main.pc = "bind_database"
    /\ IF main.args.influxdb # None
       THEN database' = main.args.influxdb /\ Leave(Enter, "bind_database")
       ELSE UNCHANGED <<database, nodes, live, extended, cmds, sunk,
                        sampled, raised, trace, op>>
    /\ MainGoes("find_nodes")
    /\ UNCHANGED <<returned, serial, cfgfile, file, matched>>

\* itf.find_nodes()
MainFindNodes ==
    /\ main.pc = "find_nodes"
    /\ \E reply \in (IF serial THEN NetworkReplies ELSE {NoReply}) :
         /\ Len(nodes) + MatchingLines(reply) <= MaxNodes
         /\ matched' = (matched \/ MatchingLines(reply) > 0)
         /\ \E boards \in ReplyChoices(BoardCommands(Listings[reply])) :
              Leave(FindNodes(Enter, [c \in {0} |-> <<reply>> \o boards]),
                    "find_nodes")
    /\ MainGoes("load")
    /\ UNCHANGED <<returned, serial, database, cfgfile, file>>

\* itf.load()
MainLoad ==
    /\ main.pc = "load"
    /\ Leave(Load(Enter), "load")
    /\ MainGoes(AfterLoad(live'))
    /\ UNCHANGED <<returned, serial, database, cfgfile, file, matched>>

\* itf.store()
MainStore ==
    /\ main.pc = "store"
    /\ \E strict \in BOOLEAN :
         /\ file' = Store(nodes, strict).file
         /\ Leave([Enter EXCEPT !.raised = Store(nodes, strict).raised],
                  "store")
    /\ MainGoes("sample")
    /\ UNCHANGED <<returned, serial, database, cfgfile, matched>>

\* itf.sample(), the first statement of the loop
MainSample ==
    /\ main.pc = "sample"
    /\ \E replies \in (IF serial /\ live THEN TickReplies(nodes, extended)
                       ELSE {<<>>}) :
         Leave(InterfaceSample(Enter, replies), "sample")
    /\ MainGoes("sleep")
    /\ UNCHANGED <<returned, serial, database, cfgfile, file, matched>>

\* time.sleep(args.interval), after which the loop starts over
MainSleep ==
    /\ main.pc = "sleep"
    /\ Leave([Enter EXCEPT !.raised = IF SleepFails(main.args)
                                       THEN "ValueError" ELSE None],
             "sleep")
    /\ MainGoes("sample")
    /\ UNCHANGED <<returned, serial, database, cfgfile, file, matched>>

\* The statements of ducobox_wrapper; none leads to its 'return 0'.
NextMain ==
    \/ MainParseArgs
    \/ MainSetLoggingLevel
    \/ MainDucoInterface
    \/ MainBindDatabase
    \/ MainFindNodes
    \/ MainLoad
    \/ MainStore
    \/ MainSample
    \/ MainSleep

SpecMain == InitMain /\ [][NextMain]_vars


-----------------------------------------------------------------------------
\* The arguments hold a startup configuration error: the required --port
\* is missing, the interval is no number, or the log level is no level.
StartupError(args) == ParseArgsFails(args) \/ SetLoggingLevelFails(args)

\* No session was built: no serial port opened, nothing discovered, no
\* command written, no device sampled.
NoSessionYet ==
    /\ op' \in {"main", "parse_args", "set_logging_level"}
    /\ ~serial' /\ nodes' = <<>> /\ ~live'
    /\ cmds' = <<>> /\ trace' = <<>> /\ sampled' = <<>>

\* C23: a startup configuration error (invalid log level, missing port,
\* non-numeric interval) ends ducobox_wrapper before the serial port is
\* opened, before discovery and before the first tick; and once the loop
\* of sample() and sleep() has begun, no error of that kind (the ValueError
\* or SystemExit a bad argument gives) ends the program.
C23_StartupErrorsOnly ==
    [][ /\ StartupError(main.args) =>
              /\ NoSessionYet
              /\ main'.pc \in {"set_logging_level", "exit"}
        /\ (main.pc \in {"sample", "sleep"} /\ main'.pc = "exit") =>
              raised' \notin {"ValueError", "SystemExit"} ]_vars

\* The same, but for a negative interval, which parse_args accepts and
\* time.sleep refuses after the first tick.
C23_UnlessNegativeInterval ==
    [][ /\ StartupError(main.args) =>
              /\ NoSessionYet
              /\ main'.pc \in {"set_logging_level", "exit"}
              /\ main'.pc = "exit" <=>
                    \/ ParseArgsFails(main.args)
                    \/ main.pc = "set_logging_level"
        /\ (main.pc \in {"sample", "sleep"} /\ main'.pc = "exit" /\ ~SleepFails(main.args)) =>
              raised' \notin {"ValueError", "SystemExit"} ]_vars

\* The program ended on an argument after it had sampled a device.
C23_EndedInLoop ==
    /\ main.pc = "exit" /\ op = "sleep" /\ raised = "ValueError"
    /\ \E i \in 1..Len(nodes) :
          \E p \in DOMAIN nodes[i].parameters :
             nodes[i].parameters[p] # NoValue

\* The program ended on each of the startup errors.
C23_EndedAtStartup ==
    /\ main.pc = "exit" /\ op = "set_logging_level" /\ raised = "ValueError"
    /\ ~serial /\ nodes = <<>>


-----------------------------------------------------------------------------
(***************************************************************************)
(* Lookup of a device by its number.                                       *)
(***************************************************************************)
\* A lookup that returns the last node with the number.
RECURSIVE GetNodeLast(_, _, _)
GetNodeLast(ns, i, number) ==
    IF i > Len(ns) THEN 0
    ELSE LET later == GetNodeLast(ns, i + 1, number)
         IN  IF later # 0 THEN later
             ELSE IF ns[i].number = number THEN i ELSE 0

\* DucoInterface.get_node, its loop from position i on: the position of the
\* node it returns, 0 for None.
RECURSIVE GetNode(_, _, _)
GetNode(ns, i, number) ==
    IF i > Len(ns) THEN 0
    ELSE IF ns[i].number = number THEN i
    ELSE GetNode(ns, i + 1, number)

\* The numbers get_node is asked for.
LookupNumbers == {<<"1">>, <<"2">>, <<"5">>, <<"9">>}

\* itf.get_node(number)
GetNodeOp ==
    /\ \E number \in LookupNumbers :
         returned' = [number |-> number, at |-> GetNode(nodes, 1, number)]
    /\ Leave(Enter, "get_node")
    /\ UNCHANGED <<main, serial, database, cfgfile, file, matched>>

\* A session that is discovered, extended by hand, loaded and looked into.
NextLookup ==
    \/ FindNodesOp
    \/ AddNodeOp
    \/ LoadOp
    \/ GetNodeOp

SpecLookup == Init /\ [][NextLookup]_vars

\* C24: get_node(n) returns the first device, in the order of nodes, whose
\* number is n now, and None -- without raising -- when nodes is empty or
\* no device has the number; it changes nothing of the session.
C24_FirstWithNumber ==
    [][ op' = "get_node" =>
          /\ raised' = None
          /\ returned'.at \in 0..Len(nodes)
          /\ returned'.at = 0 =>
                \A i \in 1..Len(nodes) : nodes[i].number # returned'.number
          /\ returned'.at # 0 =>
                /\ nodes[returned'.at].number = returned'.number
                /\ \A i \in 1..(returned'.at - 1) :
                      nodes[i].number # returned'.number
          /\ UNCHANGED <<nodes, live, extended, serial, database, cfgfile,
                         file>>
          /\ cmds' = <<>> /\ sunk' = <<>> /\ trace' = <<>> ]_vars

\* Two devices had the number asked for and the first one was returned.
C24_Witness ==
    /\ op = "get_node"
    /\ returned.at = 1
    /\ Len(nodes) = 2
    /\ nodes[2].number = returned.number

\* The number a device got from the file was found, and so was nothing in
\* a session without devices.
C24_WitnessLoaded ==
    /\ op = "get_node"
    /\ returned.number = <<"5">>
    /\ returned.at # 0

C24_WitnessNone ==
    /\ op = "get_node"
    /\ nodes = <<>>
    /\ returned.at = 0


-----------------------------------------------------------------------------
\* C25: the value of every parameter is None or the raw integer of its most
\* recent successful extraction over its scaling (humidity 100, CO2 1,
\* temperature 10, fan speed 1).  It is None exactly when the parameter was
\* never sampled with success: a device is built with values None, a value
\* changes only in a sample whose reply held a value for it, and then to
\* the integer of that reply over the scaling; a sample that ends without
\* an exception takes every value a reply held; and a value that is not
\* None never becomes None again.
C25_RawOverScaling ==
    [][ LET Divisor(p) ==
                CASE p = "humidity" -> 100
                  [] p = "CO2" -> 1
                  [] p = "temperature" -> 10
                  [] p = "fanspeed" -> 1
            Raw(reply, p) ==
                CASE reply = FanSpeedReply -> 1449
                  [] reply = ParagetReply -> 512
                  [] reply = SensorInfoReply ->
                        IF p = "humidity" THEN 6837 ELSE 189
                  [] reply = SensorInfoTempOnly -> 189
                  [] OTHER -> -1
        IN  /\ \A i \in 1..Len(nodes') :
                \A p \in DOMAIN nodes'[i].parameters :
                    LET new == nodes'[i].parameters[p]
                    IN  \/ new = NoValue
                        \/ /\ Len(new) = 2
                           /\ new[1] \in Nat
                           /\ new[2] = Divisor(p)
            /\ \A i \in (Len(nodes) + 1)..Len(nodes') :
                \A p \in DOMAIN nodes'[i].parameters :
                    nodes'[i].parameters[p] = NoValue
            /\ \A i \in 1..Len(nodes) :
                /\ DOMAIN nodes'[i].parameters = DOMAIN nodes[i].parameters
                /\ \A p \in DOMAIN nodes[i].parameters :
                    LET old == nodes[i].parameters[p]
                        new == nodes'[i].parameters[p]
                    IN  /\ old # NoValue => new # NoValue
                        /\ new # old =>
                              /\ Sampling
                              /\ \E k \in ValuesFor(i, p) :
                                    new = <<Raw(cmds'[k].reply, p), Divisor(p)>>
                        /\ (Sampling /\ raised' = None) =>
                              \A k \in ValuesFor(i, p) :
                                    new = <<Raw(cmds'[k].reply, p), Divisor(p)>>
      ]_vars

\* A humidity sensor holds 6837 over 100 and 189 over 10, and a later
\* sample whose reply held no humidity has left the humidity as it was.
C25_Witness ==
    /\ op \in {"sample", "node.sample"}
    /\ \E k \in 1..Len(cmds) :
          /\ cmds[k].node # 0
          /\ cmds[k].reply = SensorInfoTempOnly
          /\ nodes[cmds[k].node].parameters["humidity"] = <<6837, 100>>
          /\ nodes[cmds[k].node].parameters["temperature"] = <<189, 10>>


-----------------------------------------------------------------------------
\* C26: the main program discovers once, then loads, then stores only if
\* the session is online, and only then loops over sample() and sleep().
\* find_nodes() is the first operation of the session and never runs again,
\* load() directly follows it, store() directly follows load() and only on
\* a session that is online, sample() follows store(), or load() on a
\* session that is not online, or sleep(), and sleep() follows sample();
\* the network command is written by find_nodes() only and the commands
\* that sample by sample() only; the wrapper never reaches its return.
C26_DiscoverOnceThenLoop ==
    [][ /\ op' = "find_nodes" => op \in {"__init__", "bind_database"}
        /\ op' \in {"__init__", "bind_database"} =>
              op \in {"set_logging_level", "__init__"}
        /\ op' = "load" => op = "find_nodes"
        /\ op' = "store" => (op = "load" /\ live)
        /\ op' = "sample" =>
              \/ op = "store"
              \/ op = "load" /\ ~live
              \/ op = "sleep"
        /\ op' = "sleep" => op = "sample"
        /\ \A k \in 1..Len(cmds') :
              /\ cmds'[k].cmd = LIST_NETWORK_COMMAND =>
                    (op' = "find_nodes" /\ k = 1)
              /\ cmds'[k].cmd \notin {LIST_NETWORK_COMMAND, BOARD_INFO_COMMAND}
                    => op' = "sample"
        /\ sampled' # <<>> => op' = "sample"
        /\ main'.pc \in {"set_logging_level", "DucoInterface",
                         "bind_database", "find_nodes", "load", "store",
                         "sample", "sleep", "exit"}
        /\ main'.pc = "exit" => raised' # None ]_vars

\* The loop has gone round: a device discovered on an online session was
\* stored, sampled with a value, and the wrapper is about to sample again.
C26_Witness ==
    /\ main.pc = "sample" /\ op = "sleep"
    /\ live /\ file # {} /\ Len(nodes) = 2
    /\ \E p \in DOMAIN nodes[1].parameters : nodes[1].parameters[p] # NoValue

\* The loop was entered without store() on a session that is not online.
C26_WitnessOffline ==
    /\ main.pc = "sleep" /\ op = "sample"
    /\ ~live /\ serial


-----------------------------------------------------------------------------
\* C27: extended implies online, in every state the session is left in and
\* in every state it passes through inside an operation: the session is
\* never extended while is_online() is false.
C27_ExtendedImpliesOnline ==
    /\ extended => live
    /\ \A k \in DOMAIN trace : trace[k].extended => trace[k].live

\* What holds instead in the main program: the session is not extended
\* while offline in any state an operation leaves it in, and inside
\* find_nodes() it is so only from the set_extended() of a box to the
\* assignment of self._live that follows it for the same line.
C27_OnlyInsideDiscovery ==
    /\ extended => live
    /\ \A k \in DOMAIN trace :
          (trace[k].extended /\ ~trace[k].live) =>
              /\ op = "find_nodes"
              /\ trace[k].ev = "set_extended"
              /\ k < Len(trace)
              /\ trace[k + 1].ev = "_live" /\ trace[k + 1].live

\* find_nodes() passed through a state that was extended and not online.
C27_Reached ==
    /\ op = "find_nodes" /\ live /\ extended
    /\ \E k \in DOMAIN trace : trace[k].extended /\ ~trace[k].live


-----------------------------------------------------------------------------
\* C28: a sampling tick changes only the values of parameters and what the
\* sink received.  sample() of the session and sample() of a device leave
\* the nodes list (its members and their order), the online and the
\* extended flag, and the class, number, address, name and blacklist flag
\* of every device as they were, and so the serial port, the bound sink and
\* the configuration file; values change only in devices that were sampled
\* and are not blacklisted.
C28_TickKeepsSession ==
    [][ Sampling =>
          /\ Len(nodes') = Len(nodes)
          /\ live' = live
          /\ extended' = extended
          /\ \A i \in 1..Len(nodes) :
                /\ nodes'[i].cls = nodes[i].cls
                /\ nodes'[i].number = nodes[i].number
                /\ nodes'[i].address = nodes[i].address
                /\ nodes'[i].name = nodes[i].name
                /\ nodes'[i].blacklist = nodes[i].blacklist
                /\ DOMAIN nodes'[i].parameters = DOMAIN nodes[i].parameters
                /\ nodes'[i] # nodes[i] =>
                      (i \in Range(sampled') /\ ~nodes[i].blacklist)
          /\ \A k \in DOMAIN trace' :
                /\ trace'[k].ev \in {"write", "flush", "readline"}
                /\ trace'[k].live = live
                /\ trace'[k].extended = extended
          /\ UNCHANGED <<serial, database, cfgfile, file>> ]_vars

\* A tick on an extended session gave a humidity sensor a value, next to a
\* blacklisted device that it left alone.
C28_Witness ==
    /\ op = "sample" /\ extended /\ Len(nodes) = 2
    /\ \E i, j \in 1..Len(nodes) :
          /\ nodes[i].cls = "DucoUserControlHumiditySensor"
          /\ nodes[i].parameters["humidity"] # NoValue
          /\ i \in Range(sampled)
          /\ nodes[j].blacklist
          /\ j \in Range(sampled)


-----------------------------------------------------------------------------
\* C29: load() of one device is all-or-nothing.  Either the section of the
\* device holds all four options and the device takes name, number,
\* address and blacklist flag from it, or the device is left exactly as it
\* was: a section with some of the options never leaves a mix of fields of
\* the file and fields of the discovery.
C29_LoadAllOrNothing ==
    [][ (op' = "load" /\ cfgfile) =>
          \A i \in 1..Len(nodes) :
              \/ nodes'[i] = nodes[i]
              \/ \E c \in RecordsOf(i) :
                    /\ <<>> \notin {c.name, c.number, c.address, c.blacklist}
                    /\ nodes'[i].name = c.name[1]
                    /\ nodes'[i].number = c.number[1]
                    /\ nodes'[i].address = c.address[1]
                    /\ nodes'[i].blacklist = (Lower(c.blacklist[1]) \in BooleanTrue)
      ]_vars

\* What holds instead: the device takes the options in the order name,
\* number, address, blacklist, up to the first one its section lacks.
C29_LoadTakesPrefix ==
    [][ (op' = "load" /\ cfgfile) =>
          \A i \in 1..Len(nodes) :
              \/ RecordsOf(i) = {} /\ nodes'[i] = nodes[i]
              \/ \E c \in RecordsOf(i) :
                    LET hasName == c.name # <<>>
                        hasNumber == hasName /\ c.number # <<>>
                        hasAddress == hasNumber /\ c.address # <<>>
                        hasAll == hasAddress /\ c.blacklist # <<>>
                    IN  /\ nodes'[i].name =
                              IF hasName THEN c.name[1] ELSE nodes[i].name
                        /\ nodes'[i].number =
                              IF hasNumber THEN c.number[1] ELSE nodes[i].number
                        /\ nodes'[i].address =
                              IF hasAddress THEN c.address[1]
                              ELSE nodes[i].address
                        /\ nodes'[i].blacklist =
                              IF hasAll
                              THEN Lower(c.blacklist[1]) \in BooleanTrue
                              ELSE nodes[i].blacklist
                        /\ nodes'[i].cls = nodes[i].cls
                        /\ nodes'[i].parameters = nodes[i].parameters ]_vars

\* load() has left a device with the name, number and address of a section
\* that lacks the option blacklist.
C29_Mixed ==
    /\ op = "load" /\ raised = None
    /\ \E i \in 1..Len(nodes) :
          /\ nodes[i].name = "Hall"
          /\ nodes[i].number = <<"5">>
          /\ nodes[i].address = <<"6">>
          /\ ~nodes[i].blacklist

=============================================================================
